---------------------------- MODULE Spec2Model ----------------------------
(***************************************************************************)
(* Model of the search engine of the digital asset gallery                 *)
(* (src/src/utils/searchUtils.ts) and of the handlers that call it         *)
(* (src/src/components/SmartSearch.tsx, src/src/pages/Index.tsx).          *)
(*                                                                         *)
(* A JavaScript string is a sequence of one-character strings, so that     *)
(* toLowerCase, trim, split, includes and startsWith are computed the way  *)
(* the engine computes them.  An optional text field that is undefined is  *)
(* the value Undefined.  An optional number or date is <<>> when it is     *)
(* undefined and <<v>> when it is v.  Instants are milliseconds.           *)
(***************************************************************************)
EXTENDS Integers, Sequences, FiniteSets, TLC

VARIABLES
    assets,     \* the asset array of the page (Index.tsx:28), the engine's input
    filters,    \* the filter specification of the page (Index.tsx:33)
    result,     \* the displayed list, the engine's output (Index.tsx:30)
    given,      \* the arguments of the last call, as they were when the call began
    calls,      \* the calls made so far, each with its arguments and its return value
    steps,      \* number of handler runs so far
    localQuery,         \* the text of the search box (SmartSearch.tsx:47)
    searchHistory,      \* the search history of the panel (SmartSearch.tsx:49)
    showSuggestions,    \* the suggestion list is open (SmartSearch.tsx:51)
    currentFolder,      \* the folder the page shows, 0 for the root (Index.tsx:31)
    folders,            \* the folders listed on the page (Index.tsx:29)
    folderPath,         \* the ancestors of the current folder (Index.tsx:32)
    loads,              \* the runs of loadData, each with its position (Index.tsx:45-145)
    opens,              \* the folders handleNavigateToFolder is fetching (Index.tsx:184-251)
    isAnalyzing,        \* Index.tsx:41, set by the upload zone
    uploadProgress,     \* FileUploadZone.tsx:14, a progress for each file id
    runs                \* the runs of processFiles, each with its position

\* the state of the search panel
panelVars == <<localQuery, searchHistory, showSuggestions>>

\* the folder the page shows and what is being loaded for it
folderVars == <<currentFolder, folders, folderPath, loads, opens>>

\* the state of the upload zone
uploadVars == <<isAnalyzing, uploadProgress, runs>>

vars == <<assets, filters, result, given, calls, steps, panelVars, folderVars, uploadVars>>

----------------------------------------------------------------------------
(* Characters and JavaScript string primitives *)

SP == " "
TAB == "\t"
DASH == "-"
DQ == "\""
NL == "\n"

Undefined == <<"undefined">>

UpperCase == <<"A", "B", "C", "D", "E", "F", "G", "H", "I", "J", "K", "L", "M",
               "N", "O", "P", "Q", "R", "S", "T", "U", "V", "W", "X", "Y", "Z">>
LowerCase == <<"a", "b", "c", "d", "e", "f", "g", "h", "i", "j", "k", "l", "m",
               "n", "o", "p", "q", "r", "s", "t", "u", "v", "w", "x", "y", "z">>

Range(s) == {s[i] : i \in DOMAIN s}

\* String.prototype.toLowerCase on one character
LowerChar(c) ==
    IF \E i \in DOMAIN UpperCase : UpperCase[i] = c
    THEN LowerCase[CHOOSE i \in DOMAIN UpperCase : UpperCase[i] = c]
    ELSE c

toLowerCase(s) == [i \in 1..Len(s) |-> LowerChar(s[i])]

\* String.prototype.includes
includes(s, t) ==
    \E i \in 0..(Len(s) - Len(t)) : SubSeq(s, i + 1, i + Len(t)) = t

\* String.prototype.startsWith
startsWith(s, t) ==
    Len(t) <= Len(s) /\ SubSeq(s, 1, Len(t)) = t

\* the white space and line terminators String.prototype.trim strips
IsWhiteSpace(c) == c \in {SP, TAB, NL}

\* the characters the regular expression atom . does not match
IsLineTerminator(c) == c = NL

\* a slip: the query read without trim()
untrimmed(s) == s

\* String.prototype.trim
trim(s) ==
    LET keep == {i \in 1..Len(s) : ~IsWhiteSpace(s[i])}
    IN  IF keep = {} THEN <<>>
        ELSE LET lo == CHOOSE i \in keep : \A j \in keep : i <= j
                 hi == CHOOSE i \in keep : \A j \in keep : i >= j
             IN  SubSeq(s, lo, hi)

\* String.prototype.split with a one-character separator: the pieces between
\* consecutive separators, empty pieces included; "" splits into [""]
RECURSIVE split(_, _)
split(s, sep) ==
    LET at == {i \in 1..Len(s) : s[i] = sep}
    IN  IF at = {} THEN <<s>>
        ELSE LET i == CHOOSE k \in at : \A j \in at : k <= j
             IN  <<SubSeq(s, 1, i - 1)>> \o split(SubSeq(s, i + 1, Len(s)), sep)

\* Array.prototype.join
RECURSIVE join(_, _)
join(parts, sep) ==
    IF parts = <<>> THEN <<>>
    ELSE IF Len(parts) = 1 THEN parts[1]
    ELSE parts[1] \o <<sep>> \o join(Tail(parts), sep)

\* Array.prototype.includes
arrayIncludes(arr, x) == \E i \in DOMAIN arr : arr[i] = x

\* optional text: asset.aiDescription || ''
OrEmpty(s) == IF s = Undefined THEN <<>> ELSE s

\* optional chaining: asset.aiDescription?.toLowerCase().includes(term)
OptIncludes(s, t) == s # Undefined /\ includes(toLowerCase(s), t)


----------------------------------------------------------------------------
(* JavaScript objects that a call can share with its caller *)

\* a slip: `let filtered = assets`, the caller's own array
aliasArray(arr) == [array |-> arr, shared |-> TRUE]

\* a slip: `filtered` kept at module level and pushed onto, never reset, so that
\* it still holds what the last call returned
spreadOntoLast(arr) == [array |-> result \o arr, shared |-> FALSE]

\* [...assets]: a new array object with the same elements
spreadCopy(arr) == [array |-> arr, shared |-> FALSE]

\* Array.prototype.filter: a new array object holding the elements that pass;
\* pass maps each element to what the callback returns for it
filterArray(obj, pass) ==
    [array |-> SelectSeq(obj.array, LAMBDA x : pass[x]), shared |-> FALSE]

\* new Date(d): a new Date object for the same instant
newDate(t) == [time |-> t, shared |-> FALSE]

MsPerDay == 24 * 60 * 60 * 1000

\* Date.prototype.setHours(h, m, s, ms) writes the Date object it is called on;
\* local time is taken to be UTC
setHours(obj, h, m, s, ms) ==
    [obj EXCEPT !.time = (obj.time - (obj.time % MsPerDay))
                          + ((h * 60 + m) * 60 + s) * 1000 + ms]

----------------------------------------------------------------------------
(* Text predicate, searchUtils.ts 33-72 *)

\* query.match(/^"(.+)"$/): <<>> when there is no match, else <<group 1>>
exactMatch(query) ==
    IF /\ Len(query) >= 3
       /\ query[1] = DQ
       /\ query[Len(query)] = DQ
       /\ \A i \in 2..(Len(query) - 1) : ~IsLineTerminator(query[i])
    THEN <<SubSeq(query, 2, Len(query) - 1)>>
    ELSE <<>>

\* a slip: the phrase looked up in the haystack of the free-term search
exactTestHaystack(asset, exactTerm) ==
    includes(toLowerCase(join(<<asset.name, asset.description,
                                OrEmpty(asset.aiDescription),
                                OrEmpty(asset.aiTextContent)>> \o asset.tags, SP)),
             exactTerm)

\* the callback of the filter of lines 40-45
exactTest(asset, exactTerm) ==
    \/ includes(toLowerCase(asset.name), exactTerm)
    \/ includes(toLowerCase(asset.description), exactTerm)
    \/ OptIncludes(asset.aiDescription, exactTerm)
    \/ \E i \in DOMAIN asset.tags : includes(toLowerCase(asset.tags[i]), exactTerm)

\* terms.filter(term => !term.startsWith('-'))
includedTerms(terms) == SelectSeq(terms, LAMBDA term : ~startsWith(term, <<DASH>>))

\* terms.filter(term => term.startsWith('-')).map(term => term.slice(1))
excludedTerms(terms) ==
    LET dashed == SelectSeq(terms, LAMBDA term : startsWith(term, <<DASH>>))
    IN  [i \in 1..Len(dashed) |-> Tail(dashed[i])]

\* a slip: the fields joined with nothing between them
searchableTextUnspaced(asset) ==
    LET parts == <<asset.name, asset.description, OrEmpty(asset.aiDescription),
                   OrEmpty(asset.aiTextContent)>> \o asset.tags
        joined[i \in 0..Len(parts)] == IF i = 0 THEN <<>> ELSE joined[i - 1] \o parts[i]
    IN  toLowerCase(joined[Len(parts)])

\* lines 53-59
searchableText(asset) ==
    toLowerCase(join(<<asset.name, asset.description, OrEmpty(asset.aiDescription),
                       OrEmpty(asset.aiTextContent)>> \o asset.tags, SP))

\* a slip: hasIncludedTerms || hasNoExcludedTerms
termsTestEither(asset, included, excluded) ==
    LET text == searchableText(asset)
    IN  \/ \A i \in DOMAIN included : includes(text, included[i])
        \/ ~ \E i \in DOMAIN excluded : includes(text, excluded[i])

\* the callback of the filter of lines 52-70
termsTest(asset, included, excluded) ==
    LET text == searchableText(asset)
        hasIncludedTerms ==
            \/ Len(included) = 0
            \/ \A i \in DOMAIN included : includes(text, included[i])
        hasNoExcludedTerms ==
            \/ Len(excluded) = 0
            \/ ~ \E i \in DOMAIN excluded : includes(text, excluded[i])
    IN  hasIncludedTerms /\ hasNoExcludedTerms

\* lines 33-72: the array `filtered` names after the text search
textSearch(obj, f) ==
    IF f.query = <<>> THEN obj
    ELSE LET query == trim(toLowerCase(f.query))
             m == exactMatch(query)
         IN  IF m # <<>>
             THEN filterArray(obj, [asset \in Range(obj.array) |-> exactTest(asset, m[1])])
             ELSE LET terms == split(query, SP)
                      inc == includedTerms(terms)
                      exc == excludedTerms(terms)
                  IN  filterArray(obj, [asset \in Range(obj.array) |->
                                            termsTest(asset, inc, exc)])

----------------------------------------------------------------------------
(* Category, tag, date and size predicates, searchUtils.ts 74-117 *)

\* a slip: the archive rule tried before the document rule
getFileCategoryArchiveFirst(mimeType) ==
    IF startsWith(mimeType, <<"i", "m", "a", "g", "e", "/">>) THEN "image"
    ELSE IF startsWith(mimeType, <<"v", "i", "d", "e", "o", "/">>) THEN "video"
    ELSE IF startsWith(mimeType, <<"a", "u", "d", "i", "o", "/">>) THEN "audio"
    ELSE IF \/ includes(mimeType, <<"z", "i", "p">>)
            \/ includes(mimeType, <<"a", "r", "c", "h", "i", "v", "e">>)
            \/ includes(mimeType, <<"t", "a", "r">>)
            \/ includes(mimeType, <<"r", "a", "r">>) THEN "archive"
    ELSE "document"

\* a slip: a format string that matches no rule is given no category
getFileCategoryNoFallback(mimeType) ==
    IF startsWith(mimeType, <<"i", "m", "a", "g", "e", "/">>) THEN "image"
    ELSE IF startsWith(mimeType, <<"v", "i", "d", "e", "o", "/">>) THEN "video"
    ELSE IF startsWith(mimeType, <<"a", "u", "d", "i", "o", "/">>) THEN "audio"
    ELSE IF \/ includes(mimeType, <<"p", "d", "f">>)
            \/ includes(mimeType, <<"d", "o", "c", "u", "m", "e", "n", "t">>)
            \/ includes(mimeType, <<"t", "e", "x", "t">>) THEN "document"
    ELSE IF \/ includes(mimeType, <<"z", "i", "p">>)
            \/ includes(mimeType, <<"a", "r", "c", "h", "i", "v", "e">>)
            \/ includes(mimeType, <<"t", "a", "r">>)
            \/ includes(mimeType, <<"r", "a", "r">>) THEN "archive"
    ELSE "unknown"

getFileCategory(mimeType) ==
    IF startsWith(mimeType, <<"i", "m", "a", "g", "e", "/">>) THEN "image"
    ELSE IF startsWith(mimeType, <<"v", "i", "d", "e", "o", "/">>) THEN "video"
    ELSE IF startsWith(mimeType, <<"a", "u", "d", "i", "o", "/">>) THEN "audio"
    ELSE IF \/ includes(mimeType, <<"p", "d", "f">>)
            \/ includes(mimeType, <<"d", "o", "c", "u", "m", "e", "n", "t">>)
            \/ includes(mimeType, <<"t", "e", "x", "t">>) THEN "document"
    ELSE IF \/ includes(mimeType, <<"z", "i", "p">>)
            \/ includes(mimeType, <<"a", "r", "c", "h", "i", "v", "e">>)
            \/ includes(mimeType, <<"t", "a", "r">>)
            \/ includes(mimeType, <<"r", "a", "r">>) THEN "archive"
    ELSE "document"

\* a slip: fileTypes.every(t => t === assetType)
fileTypeTestEvery(asset, fileTypes) ==
    \A i \in DOMAIN fileTypes : fileTypes[i] = getFileCategory(asset.type)

\* the callback of the filter of lines 76-79
fileTypeTest(asset, fileTypes) == arrayIncludes(fileTypes, getFileCategory(asset.type))

\* lines 75-80
fileTypeFilter(obj, f) ==
    IF Len(f.fileTypes) > 0
    THEN filterArray(obj, [asset \in Range(obj.array) |-> fileTypeTest(asset, f.fileTypes)])
    ELSE obj

\* a slip: filters.tags.some(...)
tagTestSome(asset, tags) == \E i \in DOMAIN tags : arrayIncludes(asset.tags, tags[i])

\* a slip: tags compared after lower-casing
tagTestIgnoreCase(asset, tags) ==
    \A i \in DOMAIN tags :
        \E j \in DOMAIN asset.tags : toLowerCase(asset.tags[j]) = toLowerCase(tags[i])

\* the callback of the filter of lines 84-86
tagTest(asset, tags) == \A i \in DOMAIN tags : arrayIncludes(asset.tags, tags[i])

\* lines 83-87
tagFilter(obj, f) ==
    IF Len(f.tags) > 0
    THEN filterArray(obj, [asset \in Range(obj.array) |-> tagTest(asset, f.tags)])
    ELSE obj

\* filters.dateRange?.from and filters.dateRange?.to: <<>> or <<instant>>
dateFrom(f) == IF f.dateRange = <<>> THEN <<>> ELSE f.dateRange[1].from
dateTo(f) == IF f.dateRange = <<>> THEN <<>> ELSE f.dateRange[1].to

\* lines 91-92: the Date object the lower bound is normalised in
fromDate(f) == setHours(newDate(dateFrom(f)[1]), 0, 0, 0, 0)

\* a slip: the upper bound normalised to the first millisecond of its day
toDateMidnight(f) == setHours(newDate(dateTo(f)[1]), 0, 0, 0, 0)

\* lines 101-102: the Date object the upper bound is normalised in
toDate(f) == setHours(newDate(dateTo(f)[1]), 23, 59, 59, 999)

\* lines 90-98
dateFromFilter(obj, f) ==
    IF dateFrom(f) # <<>>
    THEN filterArray(obj, [asset \in Range(obj.array) |-> asset.uploadDate >= fromDate(f).time])
    ELSE obj

\* a slip: the upper bound handled inside the branch of the lower bound
dateToFilterUnderFrom(obj, f) ==
    IF dateFrom(f) # <<>> /\ dateTo(f) # <<>>
    THEN filterArray(obj, [asset \in Range(obj.array) |-> asset.uploadDate <= toDate(f).time])
    ELSE obj

\* lines 100-108
dateToFilter(obj, f) ==
    IF dateTo(f) # <<>>
    THEN filterArray(obj, [asset \in Range(obj.array) |-> asset.uploadDate <= toDate(f).time])
    ELSE obj

\* filters.sizeRange?.min and filters.sizeRange?.max: <<>> or <<bytes>>
sizeMin(f) == IF f.sizeRange = <<>> THEN <<>> ELSE f.sizeRange[1].min
sizeMax(f) == IF f.sizeRange = <<>> THEN <<>> ELSE f.sizeRange[1].max

\* lines 111-113
sizeMinFilter(obj, f) ==
    IF sizeMin(f) # <<>>
    THEN filterArray(obj, [asset \in Range(obj.array) |-> asset.size >= sizeMin(f)[1]])
    ELSE obj

\* a slip: the upper bound exclusive
sizeMaxFilterExclusive(obj, f) ==
    IF sizeMax(f) # <<>>
    THEN filterArray(obj, [asset \in Range(obj.array) |-> asset.size < sizeMax(f)[1]])
    ELSE obj

\* lines 115-117
sizeMaxFilter(obj, f) ==
    IF sizeMax(f) # <<>>
    THEN filterArray(obj, [asset \in Range(obj.array) |-> asset.size <= sizeMax(f)[1]])
    ELSE obj

----------------------------------------------------------------------------
(* Relevance score and sort, searchUtils.ts 119-151 and 165-207 *)

Min(a, b) == IF a <= b THEN a ELSE b

\* a slip: the tags scored once, however many of them match
calculateRelevanceScoreOneTag(asset, query) ==
    LET queryLower == toLowerCase(query)
        name == toLowerCase(asset.name)
        nameScore ==
            IF includes(name, queryLower)
            THEN 100 + (IF name = queryLower THEN 200 ELSE 0)
                     + (IF startsWith(name, queryLower) THEN 50 ELSE 0)
            ELSE 0
        tagsScore ==
            IF \E i \in DOMAIN asset.tags : includes(toLowerCase(asset.tags[i]), queryLower)
            THEN 50 + (IF \E i \in DOMAIN asset.tags : toLowerCase(asset.tags[i]) = queryLower
                       THEN 100 ELSE 0)
            ELSE 0
        descScore == IF includes(toLowerCase(asset.description), queryLower) THEN 30 ELSE 0
        aiDescScore == IF OptIncludes(asset.aiDescription, queryLower) THEN 20 ELSE 0
        aiTextScore == IF OptIncludes(asset.aiTextContent, queryLower) THEN 10 ELSE 0
        viewScore == IF asset.viewCount > 0 THEN Min(asset.viewCount, 20) ELSE 0
    IN  nameScore + tagsScore + descScore + aiDescScore + aiTextScore + viewScore

\* a slip: no bonus for a name that starts with the query
calculateRelevanceScoreNoPrefix(asset, query) ==
    LET queryLower == toLowerCase(query)
        name == toLowerCase(asset.name)
        nameScore ==
            IF includes(name, queryLower)
            THEN 100 + (IF name = queryLower THEN 200 ELSE 0)
            ELSE 0
        tagScore(tag) ==
            IF includes(toLowerCase(tag), queryLower)
            THEN 50 + (IF toLowerCase(tag) = queryLower THEN 100 ELSE 0)
            ELSE 0
        descScore == IF includes(toLowerCase(asset.description), queryLower) THEN 30 ELSE 0
        aiDescScore == IF OptIncludes(asset.aiDescription, queryLower) THEN 20 ELSE 0
        aiTextScore == IF OptIncludes(asset.aiTextContent, queryLower) THEN 10 ELSE 0
        viewScore == IF asset.viewCount > 0 THEN Min(asset.viewCount, 20) ELSE 0
        tagsScore[i \in 0..Len(asset.tags)] ==
            IF i = 0 THEN 0 ELSE tagsScore[i - 1] + tagScore(asset.tags[i])
    IN  nameScore + tagsScore[Len(asset.tags)] + descScore + aiDescScore
          + aiTextScore + viewScore

\* a slip: the bonus for a name that starts with the query given only when
\* the name is not equal to it (else if)
calculateRelevanceScoreElseIf(asset, query) ==
    LET queryLower == toLowerCase(query)
        name == toLowerCase(asset.name)
        nameScore ==
            IF includes(name, queryLower)
            THEN 100 + (IF name = queryLower THEN 200
                        ELSE IF startsWith(name, queryLower) THEN 50 ELSE 0)
            ELSE 0
        tagScore(tag) ==
            IF includes(toLowerCase(tag), queryLower)
            THEN 50 + (IF toLowerCase(tag) = queryLower THEN 100 ELSE 0)
            ELSE 0
        descScore == IF includes(toLowerCase(asset.description), queryLower) THEN 30 ELSE 0
        aiDescScore == IF OptIncludes(asset.aiDescription, queryLower) THEN 20 ELSE 0
        aiTextScore == IF OptIncludes(asset.aiTextContent, queryLower) THEN 10 ELSE 0
        viewScore == IF asset.viewCount > 0 THEN Min(asset.viewCount, 20) ELSE 0
        tagsScore[i \in 0..Len(asset.tags)] ==
            IF i = 0 THEN 0 ELSE tagsScore[i - 1] + tagScore(asset.tags[i])
    IN  nameScore + tagsScore[Len(asset.tags)] + descScore + aiDescScore
          + aiTextScore + viewScore

\* the score in tenths (10 * score), so that the view bonus
\* Math.min(viewCount * 0.1, 2) is the integer Min(viewCount, 20)
calculateRelevanceScore(asset, query) ==
    LET queryLower == toLowerCase(query)
        name == toLowerCase(asset.name)
        nameScore ==
            IF includes(name, queryLower)
            THEN 100 + (IF name = queryLower THEN 200 ELSE 0)
                     + (IF startsWith(name, queryLower) THEN 50 ELSE 0)
            ELSE 0
        tagScore(tag) ==
            IF includes(toLowerCase(tag), queryLower)
            THEN 50 + (IF toLowerCase(tag) = queryLower THEN 100 ELSE 0)
            ELSE 0
        descScore == IF includes(toLowerCase(asset.description), queryLower) THEN 30 ELSE 0
        aiDescScore == IF OptIncludes(asset.aiDescription, queryLower) THEN 20 ELSE 0
        aiTextScore == IF OptIncludes(asset.aiTextContent, queryLower) THEN 10 ELSE 0
        viewScore == IF asset.viewCount > 0 THEN Min(asset.viewCount, 20) ELSE 0
        tagsScore[i \in 0..Len(asset.tags)] ==
            IF i = 0 THEN 0 ELSE tagsScore[i - 1] + tagScore(asset.tags[i])
    IN  nameScore + tagsScore[Len(asset.tags)] + descScore + aiDescScore
          + aiTextScore + viewScore

\* collation order of the characters of the model, lowest first: white space,
\* punctuation, letters
CollationOrder == <<TAB, NL, SP, DASH, DQ, "/">> \o LowerCase

PrimaryWeight(c) ==
    LET l == LowerChar(c)
    IN  IF \E i \in DOMAIN CollationOrder : CollationOrder[i] = l
        THEN CHOOSE i \in DOMAIN CollationOrder : CollationOrder[i] = l
        ELSE 0

\* lower case sorts before upper case when the letters are the same
CaseWeight(c) == IF LowerChar(c) = c THEN 0 ELSE 1

\* lexicographic comparison of two sequences of weights
CompareWeights(wa, wb) ==
    LET differ == {i \in 1..Min(Len(wa), Len(wb)) : wa[i] # wb[i]}
    IN  IF differ = {}
        THEN (IF Len(wa) < Len(wb) THEN -1 ELSE IF Len(wa) > Len(wb) THEN 1 ELSE 0)
        ELSE LET i == CHOOSE k \in differ : \A j \in differ : k <= j
             IN  IF wa[i] < wb[i] THEN -1 ELSE 1

\* String.prototype.localeCompare: letters first, then case
localeCompare(a, b) ==
    LET primary == CompareWeights([i \in 1..Len(a) |-> PrimaryWeight(a[i])],
                                  [i \in 1..Len(b) |-> PrimaryWeight(b[i])])
    IN  IF primary # 0 THEN primary
        ELSE CompareWeights([i \in 1..Len(a) |-> CaseWeight(a[i])],
                            [i \in 1..Len(b) |-> CaseWeight(b[i])])

\* a slip: the direction not applied
compareAscending(a, b, f) ==
    CASE f.sortBy = "name" -> localeCompare(a.name, b.name)
      [] f.sortBy = "date" -> a.uploadDate - b.uploadDate
      [] f.sortBy = "size" -> a.size - b.size
      [] f.sortBy = "views" -> a.viewCount - b.viewCount
      [] OTHER ->
            IF f.query # <<>>
            THEN calculateRelevanceScore(b, f.query) - calculateRelevanceScore(a, f.query)
            ELSE b.uploadDate - a.uploadDate

\* a slip: the scores compared as the other keys are, a before b
compareScoreOfAFirst(a, b, f) ==
    LET comparison ==
            CASE f.sortBy = "name" -> localeCompare(a.name, b.name)
              [] f.sortBy = "date" -> a.uploadDate - b.uploadDate
              [] f.sortBy = "size" -> a.size - b.size
              [] f.sortBy = "views" -> a.viewCount - b.viewCount
              [] OTHER ->
                    IF f.query # <<>>
                    THEN calculateRelevanceScore(a, f.query)
                           - calculateRelevanceScore(b, f.query)
                    ELSE b.uploadDate - a.uploadDate
    IN  IF f.sortOrder = "asc" THEN comparison ELSE -comparison

\* the comparator of lines 120-151
compare(a, b, f) ==
    LET comparison ==
            CASE f.sortBy = "name" -> localeCompare(a.name, b.name)
              [] f.sortBy = "date" -> a.uploadDate - b.uploadDate
              [] f.sortBy = "size" -> a.size - b.size
              [] f.sortBy = "views" -> a.viewCount - b.viewCount
              [] OTHER ->
                    IF f.query # <<>>
                    THEN calculateRelevanceScore(b, f.query)
                           - calculateRelevanceScore(a, f.query)
                    ELSE b.uploadDate - a.uploadDate
    IN  IF f.sortOrder = "asc" THEN comparison ELSE -comparison

RECURSIVE insertSortedBeforeEqual(_, _, _)
\* a slip: x goes before the elements it compares equal to
insertSortedBeforeEqual(sorted, x, f) ==
    IF sorted = <<>> THEN <<x>>
    ELSE IF compare(Head(sorted), x, f) >= 0 THEN <<x>> \o sorted
    ELSE <<Head(sorted)>> \o insertSortedBeforeEqual(Tail(sorted), x, f)

\* one insertion of a stable sort: x goes after every element that does not
\* compare greater than it
RECURSIVE insertSorted(_, _, _)
insertSorted(sorted, x, f) ==
    IF sorted = <<>> THEN <<x>>
    ELSE IF compare(Head(sorted), x, f) > 0 THEN <<x>> \o sorted
    ELSE <<Head(sorted)>> \o insertSorted(Tail(sorted), x, f)

RECURSIVE stableSortFromFront(_, _)
\* a slip: the elements are inserted last to first, so that equal elements
\* come out in reverse
stableSortFromFront(arr, f) ==
    IF arr = <<>> THEN <<>>
    ELSE insertSorted(stableSortFromFront(Tail(arr), f), Head(arr), f)

RECURSIVE stableSort(_, _)
stableSort(arr, f) ==
    IF arr = <<>> THEN <<>>
    ELSE insertSorted(stableSort(SubSeq(arr, 1, Len(arr) - 1), f), arr[Len(arr)], f)

\* Array.prototype.sort sorts the array object it is called on (stable)
sortInPlace(obj, f) == [obj EXCEPT !.array = stableSort(obj.array, f)]

----------------------------------------------------------------------------
(* performSmartSearch, searchUtils.ts 29-154 *)

\* the filter specification object after the call: a bound is rewritten only
\* if the Date object the call normalises is the caller's own
filtersAfter(f) ==
    IF f.dateRange = <<>> THEN f
    ELSE LET from == IF dateFrom(f) # <<>> /\ fromDate(f).shared
                     THEN <<fromDate(f).time>> ELSE dateFrom(f)
             to == IF dateTo(f) # <<>> /\ toDate(f).shared
                   THEN <<toDate(f).time>> ELSE dateTo(f)
         IN  [f EXCEPT !.dateRange = <<[from |-> from, to |-> to]>>]

\* returned: the array the call returns; assets, filters: the two arguments
\* as the call leaves them
performSmartSearch(arr, f) ==
    LET filtered0 == spreadCopy(arr)
        filtered1 == textSearch(filtered0, f)
        filtered2 == fileTypeFilter(filtered1, f)
        filtered3 == tagFilter(filtered2, f)
        filtered4 == dateFromFilter(filtered3, f)
        filtered5 == dateToFilter(filtered4, f)
        filtered6 == sizeMinFilter(filtered5, f)
        filtered7 == sizeMaxFilter(filtered6, f)
        sorted == sortInPlace(filtered7, f)
    IN  [returned |-> sorted.array,
         assets |-> IF sorted.shared THEN sorted.array ELSE arr,
         filters |-> filtersAfter(f)]

----------------------------------------------------------------------------
(* TypeError: the reads of a property of undefined that a call can reach *)

\* a slip: the method called without the optional chaining of ?.
callFailsUnchained(value, optional) == value = Undefined

\* value.method(...) or value?.method(...): a TypeError when value is undefined
\* and the call is not optional
callFails(value, optional) == value = Undefined /\ ~optional

\* line 43, reached when the tests of lines 41-42 are false
exactTestFails(asset, exactTerm) ==
    /\ ~includes(toLowerCase(asset.name), exactTerm)
    /\ ~includes(toLowerCase(asset.description), exactTerm)
    /\ callFails(asset.aiDescription, TRUE)

\* lines 33-45
textSearchFails(arr, f) ==
    /\ f.query # <<>>
    /\ exactMatch(trim(toLowerCase(f.query))) # <<>>
    /\ \E i \in DOMAIN arr :
          exactTestFails(arr[i], exactMatch(trim(toLowerCase(f.query)))[1])

\* lines 91 and 101 read filters.dateRange.from and .to, lines 112 and 116
\* filters.sizeRange!.min! and .max!, each behind its test of lines 90, 100,
\* 111, 115
rangeReadFails(f) ==
    \/ dateFrom(f) # <<>> /\ f.dateRange = <<>>
    \/ dateTo(f) # <<>> /\ f.dateRange = <<>>
    \/ sizeMin(f) # <<>> /\ f.sizeRange = <<>>
    \/ sizeMax(f) # <<>> /\ f.sizeRange = <<>>

\* lines 192 and 197
scoreFails(asset) ==
    callFails(asset.aiDescription, TRUE) \/ callFails(asset.aiTextContent, TRUE)

\* lines 139-142: the comparator runs when there are two records to compare
sortFails(arr, f) ==
    /\ f.sortBy \notin {"name", "date", "size", "views"}
    /\ f.query # <<>>
    /\ Len(performSmartSearch(arr, f).returned) >= 2
    /\ \E a \in Range(performSmartSearch(arr, f).returned) : scoreFails(a)

\* the call ends in a TypeError instead of returning
throwsTypeError(arr, f) ==
    textSearchFails(arr, f) \/ rangeReadFails(f) \/ sortFails(arr, f)

----------------------------------------------------------------------------
(* Filter specifications the search panel passes to onSearch,               *)
(* SmartSearch.tsx 32-136 and 275-380                                       *)

\* Index.tsx 32-38
DefaultFilters ==
    [query |-> <<>>, tags |-> <<>>, fileTypes |-> <<>>, dateRange |-> <<>>,
     sizeRange |-> <<>>, sortBy |-> "relevance", sortOrder |-> "desc"]

\* SmartSearch.tsx 32-38
FILE_TYPES == <<"image", "video", "audio", "document", "archive">>

MB == 1024 * 1024

\* SmartSearch.tsx 40-44
SIZE_PRESETS ==
    <<[value |-> "small", min |-> <<0>>, max |-> <<MB>>],
      [value |-> "medium", min |-> <<MB>>, max |-> <<10 * MB>>],
      [value |-> "large", min |-> <<10 * MB>>, max |-> <<>>]>>

\* arr.filter(t => t !== x)
without(arr, x) == SelectSeq(arr, LAMBDA t : t # x)

\* SmartSearch.tsx 106-115
toggleFileType(f, fileType) ==
    [f EXCEPT !.fileTypes = IF arrayIncludes(f.fileTypes, fileType)
                            THEN without(f.fileTypes, fileType)
                            ELSE Append(f.fileTypes, fileType)]

\* SmartSearch.tsx 117-126
toggleTag(f, tag) ==
    [f EXCEPT !.tags = IF arrayIncludes(f.tags, tag)
                       THEN without(f.tags, tag)
                       ELSE Append(f.tags, tag)]

\* SmartSearch.tsx 128-136
setSizePreset(f, preset) ==
    [f EXCEPT !.sizeRange = <<[min |-> preset.min, max |-> preset.max]>>]

\* SmartSearch.tsx 81-84, 92-95, 100-103: { ...searchFilters, query: q }
withQuery(f, q) == [f EXCEPT !.query = q]

\* the onSelect of the calendar: { ...searchFilters, dateRange: range || undefined }
withDateRange(f, range) == [f EXCEPT !.dateRange = range]

\* the onValueChange of the two sort selects
withSortBy(f, key) == [f EXCEPT !.sortBy = key]
withSortOrder(f, order) == [f EXCEPT !.sortOrder = order]

----------------------------------------------------------------------------
(* Inputs of the model *)

cat == <<"c", "a", "t">>
Cat == <<"C", "a", "t">>
dog == <<"d", "o", "g">>
draft == <<"d", "r", "a", "f", "t">>
red == <<"r", "e", "d">>
car == <<"c", "a", "r">>
redCar == red \o <<SP>> \o car
image == <<"i", "m", "a", "g", "e">>
video == <<"v", "i", "d", "e", "o">>

Asset(id, name, type, size, uploadDate, tags, description, viewCount, aiDescription, aiText) ==
    [id |-> id, name |-> name, type |-> type, size |-> size, uploadDate |-> uploadDate,
     tags |-> tags, description |-> description, viewCount |-> viewCount,
     aiDescription |-> aiDescription, aiTextContent |-> aiText]

Noon == 12 * 60 * 60 * 1000

\* the assets the asset lists of Spec are drawn from; type is 'image' or 'video'
\* (searchUtils.ts 7)
AssetPool ==
    { Asset(1, cat, image, 1024, MsPerDay + Noon, <<cat>>, <<>>, 0, Undefined, Undefined),
      Asset(2, dog, video, MB, 2 * MsPerDay, <<cat, dog>>, draft, 3, cat, Undefined),
      Asset(3, Cat, image, MB + 1, 2 * MsPerDay - 1, <<Cat, dog>>, redCar, 25, Undefined, draft),
      Asset(4, draft, video, 10 * MB, 3 * MsPerDay + Noon, <<>>, dog, 0, Undefined, Undefined) }

\* longest asset list
MaxAssets == 2

\* number of handler runs explored
MaxSteps == 2

\* number of recorded calls explored
MaxCalls == 3

RECURSIVE ListsOver(_, _)
\* the lists of at most n different elements of S
ListsOver(S, n) ==
    IF n = 0 THEN {<<>>}
    ELSE LET shorter == ListsOver(S, n - 1)
         IN  shorter \cup {Append(l, x) : l \in shorter, x \in S} 

Distinct(l) == \A i, j \in DOMAIN l : i # j => l[i] # l[j]

AssetLists == {l \in ListsOver(AssetPool, MaxAssets) : Distinct(l)}

TagPool == {cat, dog}

QueryPool == {<<>>, cat, <<DASH>> \o draft, <<DQ>> \o cat \o <<DQ>>}

\* ranges the calendar can hand over: a first day, a first and a last day;
\* and a last day alone, which the type of dateRange allows
DateRangePool ==
    { <<>>,
      <<[from |-> <<2 * MsPerDay>>, to |-> <<>>]>>,
      <<[from |-> <<MsPerDay>>, to |-> <<2 * MsPerDay>>]>>,
      <<[from |-> <<>>, to |-> <<MsPerDay + Noon>>]>> }

\* filter specifications with several dimensions set at once
FilterPool ==
    { [query |-> cat, tags |-> <<cat>>, fileTypes |-> <<"document">>,
       dateRange |-> <<[from |-> <<MsPerDay>>, to |-> <<2 * MsPerDay>>]>>,
       sizeRange |-> <<[min |-> <<0>>, max |-> <<MB>>]>>,
       sortBy |-> "name", sortOrder |-> "asc"],
      [query |-> <<DASH>> \o cat, tags |-> <<>>, fileTypes |-> <<"image", "document">>,
       dateRange |-> <<[from |-> <<>>, to |-> <<3 * MsPerDay + Noon>>]>>,
       sizeRange |-> <<[min |-> <<10 * MB>>, max |-> <<>>]>>,
       sortBy |-> "views", sortOrder |-> "desc"] }

SortKeys == {"name", "date", "size", "views", "relevance"}
SortOrders == {"asc", "desc"}

----------------------------------------------------------------------------
(* The page: Index.tsx 28-39, 102-103, 366-370 *)

\* Array.prototype.slice(from, to)
slice(arr, from, to) == SubSeq(arr, from + 1, Min(to, Len(arr)))

\* a slip: the query put in front without looking it up in the history
newHistoryAlways(query, history) ==
    IF query # <<>> THEN <<query>> \o slice(history, 0, 9) ELSE history

\* SmartSearch.tsx 76-80: the history after a search for the query
newHistory(query, history) ==
    IF query # <<>> /\ ~arrayIncludes(history, query)
    THEN <<query>> \o slice(history, 0, 9)
    ELSE history

\* SmartSearch.tsx 47-51
InitPanel ==
    /\ localQuery = DefaultFilters.query
    /\ searchHistory = <<>>
    /\ showSuggestions = FALSE

\* Index.tsx 29-32: the root folder, its load finished
InitLoaded ==
    /\ currentFolder = 0
    /\ folders = <<>>
    /\ folderPath = <<>>
    /\ loads = <<>>
    /\ opens = <<>>

\* Index.tsx 41 and FileUploadZone.tsx 14: no upload under way
InitIdle ==
    /\ isAnalyzing = FALSE
    /\ uploadProgress = <<>>
    /\ runs = <<>>

Init ==
    /\ assets \in AssetLists
    /\ filters = DefaultFilters
    /\ result = assets
    /\ given = [assets |-> assets, filters |-> DefaultFilters]
    /\ calls = <<>>
    /\ steps = 0
    /\ InitPanel
    /\ InitLoaded
    /\ InitIdle

\* Index.tsx 366-370
handleSmartSearch(newFilters) ==
    LET call == performSmartSearch(assets, newFilters)
    IN  /\ given' = [assets |-> assets, filters |-> newFilters]
        /\ filters' = call.filters
        /\ assets' = call.assets
        /\ result' = call.returned
        /\ steps' = steps + 1
        /\ UNCHANGED <<folderVars, uploadVars>>

\* SmartSearch.tsx 61-73: the effect that follows every render of the page,
\* whose allTags (Index.tsx 372) is a new array each time
suggestionsEffect == showSuggestions' = (Len(localQuery') > 1)

\* SmartSearch.tsx 178 and 75-87: the query typed into the box and searched
typeAndSearch(q) ==
    /\ localQuery' = q
    /\ searchHistory' = newHistory(q, searchHistory)
    /\ handleSmartSearch(withQuery(filters, q))
    /\ suggestionsEffect

\* a control of the panel other than the search box
panelControl(newFilters) ==
    /\ handleSmartSearch(newFilters)
    /\ UNCHANGED <<localQuery, searchHistory>>
    /\ suggestionsEffect

\* a search with a whole filter specification
SearchFilters ==
    /\ steps < MaxSteps
    /\ \E f \in FilterPool : panelControl(f)
    /\ UNCHANGED calls

SearchQuery ==
    /\ steps < MaxSteps
    /\ \E q \in QueryPool : typeAndSearch(q)
    /\ UNCHANGED calls

ToggleTag ==
    /\ steps < MaxSteps
    /\ \E t \in TagPool : panelControl(toggleTag(filters, t))
    /\ UNCHANGED calls

ToggleFileType ==
    /\ steps < MaxSteps
    /\ \E i \in DOMAIN FILE_TYPES :
          panelControl(toggleFileType(filters, FILE_TYPES[i]))
    /\ UNCHANGED calls

SelectSizePreset ==
    /\ steps < MaxSteps
    /\ \E i \in DOMAIN SIZE_PRESETS :
          panelControl(setSizePreset(filters, SIZE_PRESETS[i]))
    /\ UNCHANGED calls

SelectDateRange ==
    /\ steps < MaxSteps
    /\ \E r \in DateRangePool : panelControl(withDateRange(filters, r))
    /\ UNCHANGED calls

SelectSortBy ==
    /\ steps < MaxSteps
    /\ \E k \in SortKeys : panelControl(withSortBy(filters, k))
    /\ UNCHANGED calls

SelectSortOrder ==
    /\ steps < MaxSteps
    /\ \E o \in SortOrders : panelControl(withSortOrder(filters, o))
    /\ UNCHANGED calls

Next ==
    \/ SearchFilters
    \/ SearchQuery
    \/ ToggleTag
    \/ ToggleFileType
    \/ SelectSizePreset
    \/ SelectDateRange
    \/ SelectSortBy
    \/ SelectSortOrder

Spec == Init /\ [][Next]_vars

----------------------------------------------------------------------------
(* One text search over a fixed library, for the text predicate *)

TextLibrary ==
    << Asset(1, Cat, image, 1024, MsPerDay, <<>>, <<>>, 0, Undefined, Undefined),
       Asset(2, dog, image, 1024, MsPerDay, <<cat>>, draft, 0, Undefined, Undefined),
       Asset(3, red, image, 1024, MsPerDay, <<>>, car, 0, Undefined, Undefined),
       Asset(4, redCar, video, 1024, MsPerDay, <<>>, <<>>, 0, Undefined, Undefined),
       Asset(5, dog, image, 1024, MsPerDay, <<>>, <<>>, 0, Undefined, redCar),
       Asset(6, dog, image, 1024, MsPerDay, <<red, car>>, <<>>, 0, Undefined, Undefined),
       Asset(7, dog, video, 1024, MsPerDay, <<dog>>, <<>>, 0,
             <<"D", "r", "a", "f", "t">> \o <<SP>> \o cat, Undefined),
       Asset(8, dog, image, 1024, MsPerDay, <<redCar>>, <<>>, 0, Undefined, Undefined),
       Asset(9, dog, image, 1024, MsPerDay, <<>>, <<>>, 0, Undefined, draft) >>

\* the pieces queries are put together from
QueryParts == {cat, draft, <<SP>>, <<TAB>>, <<DASH>>, <<DQ>>}

\* most pieces in a query
MaxQueryParts == 4

RECURSIVE Concatenations(_, _)
\* the strings made of at most n pieces
Concatenations(P, n) ==
    IF n = 0 THEN {<<>>}
    ELSE LET shorter == Concatenations(P, n - 1)
         IN  shorter \cup {q \o x : q \in shorter, x \in P}

ScenarioQueries ==
    { <<DQ>> \o redCar \o <<DQ>>, redCar, red \o <<SP, SP>> \o car,
      red \o <<TAB>> \o car, cat \o <<SP>> \o dog \o <<SP, DASH>>,
      <<DQ, "R", "e", "d", SP, "C", "a", "r", DQ>> }

TextQueries == Concatenations(QueryParts, MaxQueryParts) \cup ScenarioQueries

InitText ==
    /\ assets = TextLibrary
    /\ filters = DefaultFilters
    /\ result = assets
    /\ given = [assets |-> assets, filters |-> DefaultFilters]
    /\ calls = <<>>
    /\ steps = 0
    /\ InitPanel
    /\ InitLoaded
    /\ InitIdle

\* SmartSearch.tsx 75-87: the search the query box starts
SearchText ==
    /\ steps = 0
    /\ \E q \in TextQueries : typeAndSearch(q)
    /\ UNCHANGED calls

NextText == SearchText

SpecText == InitText /\ [][NextText]_vars

----------------------------------------------------------------------------
(* Repeated calls, each recorded with its arguments and its return value *)

Record(newFilters) ==
    calls' = Append(calls, [assets |-> assets, filters |-> newFilters,
                            returned |-> performSmartSearch(assets, newFilters).returned])

RepeatQuery ==
    /\ steps < MaxCalls
    /\ \E q \in QueryPool :
           typeAndSearch(q) /\ Record(withQuery(filters, q))

RepeatTag ==
    /\ steps < MaxCalls
    /\ \E t \in TagPool :
           panelControl(toggleTag(filters, t)) /\ Record(toggleTag(filters, t))

RepeatSortOrder ==
    /\ steps < MaxCalls
    /\ \E o \in SortOrders :
           panelControl(withSortOrder(filters, o)) /\ Record(withSortOrder(filters, o))

NextRepeat ==
    \/ RepeatQuery
    \/ RepeatTag
    \/ RepeatSortOrder

SpecRepeat == Init /\ [][NextRepeat]_vars

----------------------------------------------------------------------------
(* One search over a fixed library, for the category, tag, date and size   *)
(* predicates                                                               *)

\* format strings a caller can hand over in asset.type
pngFormat == <<"i", "m", "a", "g", "e", "/", "p", "n", "g">>
pdfFormat == <<"a", "p", "p", "l", "i", "c", "a", "t", "i", "o", "n", "/", "p", "d", "f">>
mp4Format == <<"v", "i", "d", "e", "o", "/", "m", "p", "4">>
oggFormat == <<"a", "u", "d", "i", "o", "/", "o", "g", "g">>
zipFormat == <<"a", "p", "p", "l", "i", "c", "a", "t", "i", "o", "n", "/", "z", "i", "p">>
textZipFormat == <<"t", "e", "x", "t", "/", "z", "i", "p">>
imageTarFormat == <<"i", "m", "a", "g", "e", "/", "x", "-", "t", "a", "r">>
woffFormat == <<"f", "o", "n", "t", "/", "w", "o", "f", "f">>

\* sizes on both sides of 1024 and 2048, upload instants on both sides of the
\* first and the last millisecond of day 2
FilterLibrary ==
    << Asset(1, cat, pngFormat, 1024, 2 * MsPerDay, <<cat>>, <<>>, 0, Undefined, Undefined),
       Asset(2, dog, pdfFormat, 2048, 2 * MsPerDay - 1, <<>>, <<>>, 0, Undefined, Undefined),
       Asset(3, Cat, mp4Format, 2049, 3 * MsPerDay - 1, <<cat, dog>>, <<>>, 0, Undefined, Undefined),
       Asset(4, dog, oggFormat, 0, 3 * MsPerDay, <<>>, <<>>, 0, Undefined, Undefined),
       Asset(5, draft, zipFormat, 1023, 2 * MsPerDay + Noon, <<cat>>, <<>>, 0, Undefined, Undefined),
       Asset(6, dog, textZipFormat, MB, 2 * MsPerDay + Noon, <<>>, <<>>, 0, Undefined, Undefined),
       Asset(7, cat, imageTarFormat, 1024, MsPerDay, <<dog>>, <<>>, 0, Undefined, Undefined),
       Asset(8, dog, woffFormat, 2048, 2 * MsPerDay, <<cat>>, <<>>, 0, Undefined, Undefined),
       Asset(9, dog, image, 2049, 3 * MsPerDay - 1, <<>>, <<>>, 0, Undefined, Undefined) >>

\* the empty query, queries of white space only, one word, one quoted word
BlankQueryPool ==
    {<<>>, <<SP>>, <<SP, SP>>, <<TAB>>, <<SP, NL>>, cat, <<DQ>> \o dog \o <<DQ>>}

FileTypesPool ==
    {<<>>, <<"image">>, <<"document">>, <<"image", "archive">>, <<"video", "audio">>}

TagsPool == {<<>>, <<cat>>}

\* a first day alone, a last day alone, one day as both, two days, and a
\* first day after the last day
DateEdgePool ==
    { <<>>,
      <<[from |-> <<3 * MsPerDay>>, to |-> <<2 * MsPerDay + Noon>>]>>,
      <<[from |-> <<2 * MsPerDay + Noon>>, to |-> <<>>]>>,
      <<[from |-> <<>>, to |-> <<2 * MsPerDay + Noon>>]>>,
      <<[from |-> <<2 * MsPerDay>>, to |-> <<2 * MsPerDay>>]>>,
      <<[from |-> <<MsPerDay>>, to |-> <<2 * MsPerDay>>]>> }

SizeRangePool ==
    { <<>>,
      <<[min |-> <<2048>>, max |-> <<1024>>]>>,
      <<[min |-> <<1024>>, max |-> <<2048>>]>>,
      <<[min |-> <<0>>, max |-> <<>>]>>,
      <<[min |-> <<>>, max |-> <<2048>>]>>,
      <<[min |-> <<2049>>, max |-> <<>>]>>,
      <<[min |-> <<0>>, max |-> <<0>>]>> }

InitFilter ==
    /\ assets = FilterLibrary
    /\ filters = DefaultFilters
    /\ result = assets
    /\ given = [assets |-> assets, filters |-> DefaultFilters]
    /\ calls = <<>>
    /\ steps = 0
    /\ InitPanel
    /\ InitLoaded
    /\ InitIdle

\* Index.tsx 366-370 with a filter specification of the panel
FilterSearch ==
    /\ steps = 0
    /\ \E q \in BlankQueryPool, ft \in FileTypesPool, tg \in TagsPool,
          dr \in DateEdgePool, sr \in SizeRangePool :
            handleSmartSearch([DefaultFilters EXCEPT !.query = q, !.fileTypes = ft,
                                   !.tags = tg, !.dateRange = dr, !.sizeRange = sr])
    /\ UNCHANGED <<calls, panelVars>>

NextFilter == FilterSearch

SpecFilter == InitFilter /\ [][NextFilter]_vars

----------------------------------------------------------------------------
(* One search over lists of a few assets, for the scorer and the sort *)

catPhoto == Cat \o <<SP, "P", "h", "o", "t", "o">>
Dog == <<"D", "o", "g">>
dogCat == dog \o <<SP>> \o cat

\* two assets with only a name or a tag to match (the first two), one that
\* matches in every field and in three tags, one that matches inside its name,
\* one that does not match, one with the same name as another; some share a
\* size, an upload time, a view count or a score
SortPool ==
    { Asset(1, catPhoto, image, 2048, 3 * MsPerDay, <<>>, <<>>, 0, Undefined, Undefined),
      Asset(2, Dog, image, 1024, MsPerDay, <<cat>>, <<>>, 0, Undefined, Undefined),
      Asset(3, Cat, video, 1024, 2 * MsPerDay, <<cat, Cat, catPhoto>>, cat, 25, cat, cat),
      Asset(4, dogCat, image, MB, 2 * MsPerDay, <<dog>>, draft, 3, Undefined, draft),
      Asset(5, draft, video, 0, 4 * MsPerDay, <<>>, <<>>, 3, Undefined, Undefined),
      Asset(6, draft, image, 2048, 3 * MsPerDay, <<cat>>, <<>>, 7, Undefined, Undefined) }

\* longest list that is sorted
MaxSorted == 3

SortLists == {l \in ListsOver(SortPool, MaxSorted) : Distinct(l)}

SortQueryPool == {<<>>, cat, Cat, <<SP>>, <<TAB>>}

\* the sort keys of the panel and a string that is none of them
AnySortKeys == SortKeys \cup {"type"}

InitSort ==
    /\ assets \in SortLists
    /\ filters = DefaultFilters
    /\ result = assets
    /\ given = [assets |-> assets, filters |-> DefaultFilters]
    /\ calls = <<>>
    /\ steps = 0
    /\ InitPanel
    /\ InitLoaded
    /\ InitIdle

\* Index.tsx 366-370 with a query, a sort key and a direction
SortSearch ==
    /\ steps = 0
    /\ \E q \in SortQueryPool, k \in AnySortKeys, o \in SortOrders :
            handleSmartSearch([DefaultFilters EXCEPT !.query = q, !.sortBy = k,
                                   !.sortOrder = o])
    /\ UNCHANGED <<calls, panelVars>>

NextSort == SortSearch

SpecSort == InitSort /\ [][NextSort]_vars

----------------------------------------------------------------------------
(* The search box and its history, SmartSearch.tsx 46-104 and 170-216 *)

RECURSIVE unique(_)
\* [...new Set(arr)]: the elements in the order of their first occurrence
unique(arr) ==
    IF arr = <<>> THEN <<>>
    ELSE LET front == unique(SubSeq(arr, 1, Len(arr) - 1))
         IN  IF arrayIncludes(front, arr[Len(arr)]) THEN front
             ELSE Append(front, arr[Len(arr)])

RECURSIVE flatTags(_)
\* assets.flatMap(asset => asset.tags)
flatTags(arr) == IF arr = <<>> THEN <<>> ELSE Head(arr).tags \o flatTags(Tail(arr))

\* Index.tsx 372
allTags(arr) == unique(flatTags(arr))

\* SmartSearch.tsx 63-68
suggestionsOf(query, availableTags, history) ==
    LET filtered ==
            slice(SelectSeq(availableTags,
                            LAMBDA tag : includes(toLowerCase(tag), toLowerCase(query))),
                  0, 5)
        fromHistory ==
            SelectSeq(history, LAMBDA h : /\ includes(toLowerCase(h), toLowerCase(query))
                                          /\ ~arrayIncludes(filtered, h))
    IN  slice(filtered \o fromHistory, 0, 8)

\* a history that ten searches have left in localStorage
FullHistory == <<cat, dog, draft, red, car, redCar, Cat, Dog, catPhoto, dogCat>>

\* what the panel finds in localStorage when it is mounted (SmartSearch.tsx
\* 54-59): nothing, nine entries, ten entries
StoredHistories == {<<>>, Tail(FullHistory), FullHistory}

\* what is typed into the search box
TypedPool == {<<>>, <<SP>>, cat, <<"c", "a">>, image, video}

\* number of searches explored
MaxSearches == 3

HistoryLibrary ==
    << Asset(1, cat, image, 1024, MsPerDay + Noon, <<cat>>, <<>>, 0, Undefined, Undefined),
       Asset(2, dog, video, MB, 2 * MsPerDay, <<cat, dog>>, draft, 3, cat, Undefined) >>

InitHistory ==
    /\ assets = HistoryLibrary
    /\ filters = DefaultFilters
    /\ result = assets
    /\ given = [assets |-> assets, filters |-> DefaultFilters]
    /\ calls = <<>>
    /\ steps = 0
    /\ localQuery = DefaultFilters.query
    /\ searchHistory \in StoredHistories
    /\ showSuggestions = FALSE
    /\ InitLoaded
    /\ InitIdle

\* SmartSearch.tsx 178, and the effect of lines 61-73 that follows the render
TypeQuery ==
    /\ \E q \in TypedPool \ {localQuery} :
          /\ localQuery' = q
          /\ showSuggestions' = (Len(q) > 1)
    /\ UNCHANGED <<assets, filters, result, given, calls, steps, searchHistory,
                   folderVars, uploadVars>>

\* SmartSearch.tsx 75-87; the page renders again with a new allTags array, so
\* the effect of lines 61-73 runs after the handler
HandleSearch ==
    /\ steps < MaxSearches
    /\ searchHistory' = newHistory(localQuery, searchHistory)
    /\ handleSmartSearch(withQuery(filters, localQuery))
    /\ showSuggestions' = (Len(localQuery) > 1)
    /\ UNCHANGED <<calls, localQuery>>

\* SmartSearch.tsx 89-96, on a suggestion of the open list (203-208)
HandleSuggestionClick ==
    /\ steps < MaxSearches
    /\ showSuggestions
    /\ \E suggestion \in Range(suggestionsOf(localQuery, allTags(assets), searchHistory)) :
          /\ localQuery' = suggestion
          /\ handleSmartSearch(withQuery(filters, suggestion))
          /\ showSuggestions' = (Len(suggestion) > 1)
    /\ UNCHANGED <<calls, searchHistory>>

\* SmartSearch.tsx 98-104, the button of lines 186-195
ClearSearch ==
    /\ steps < MaxSearches
    /\ localQuery # <<>>
    /\ localQuery' = <<>>
    /\ handleSmartSearch(withQuery(filters, <<>>))
    /\ showSuggestions' = FALSE
    /\ UNCHANGED <<calls, searchHistory>>

\* SmartSearch.tsx 180
FocusSearch ==
    /\ ~showSuggestions
    /\ Len(localQuery) > 1
    /\ showSuggestions' = TRUE
    /\ UNCHANGED <<assets, filters, result, given, calls, steps, localQuery, searchHistory,
                   folderVars, uploadVars>>

\* SmartSearch.tsx 181
BlurSearch ==
    /\ showSuggestions
    /\ showSuggestions' = FALSE
    /\ UNCHANGED <<assets, filters, result, given, calls, steps, localQuery, searchHistory,
                   folderVars, uploadVars>>

NextHistory ==
    \/ TypeQuery
    \/ HandleSearch
    \/ HandleSuggestionClick
    \/ ClearSearch
    \/ FocusSearch
    \/ BlurSearch

SpecHistory == InitHistory /\ [][NextHistory]_vars

----------------------------------------------------------------------------
(* The asset handlers of the page, Index.tsx 147-182 and 352-370 *)

\* handler runs explored on the page
MaxPageSteps == 3

imageFile == <<"I", "m", "a", "g", "e", SP, "f", "i", "l", "e">>

PageAssets ==
    << Asset(1, cat, image, 1024, MsPerDay + Noon, <<cat>>, <<>>, 0, Undefined, Undefined),
       Asset(2, dog, video, MB, 2 * MsPerDay, <<dog>>, <<>>, 3, Undefined, Undefined) >>

\* what the upload zone hands over: nothing, one asset, two assets
UploadedPool ==
    { <<>>,
      << Asset(3, draft, image, 2048, 3 * MsPerDay, <<image>>, imageFile, 0,
               Undefined, Undefined) >>,
      << Asset(3, draft, image, 2048, 3 * MsPerDay, <<image>>, imageFile, 0,
               Undefined, Undefined),
         Asset(4, Cat, video, 2 * MB, 3 * MsPerDay, <<video>>, <<>>, 0,
               Undefined, Undefined) >> }

AssetIds == 1..4

\* the tags an asset is saved with in the detail view
EditedTags == {<<>>, <<cat, dog>>}

PageFilterPool ==
    { DefaultFilters,
      [DefaultFilters EXCEPT !.query = cat],
      [DefaultFilters EXCEPT !.tags = <<cat>>],
      [DefaultFilters EXCEPT !.sortBy = "views", !.sortOrder = "asc"] }

\* Array.prototype.map with a function given as a TLA+ function
mapArray(arr, fn) == [i \in 1..Len(arr) |-> fn[arr[i]]]

\* Index.tsx 147-151; captured is the assets array of the render the calling
\* closure was made in
handleFilesUploaded(captured, newAssets) ==
    LET updatedAssets == captured \o newAssets
    IN  /\ assets' = updatedAssets
        /\ result' = updatedAssets

\* Index.tsx 159-177, the two updates after the remote call has returned
viewed(arr, assetId) ==
    mapArray(arr, [asset \in Range(arr) |->
                      IF asset.id = assetId
                      THEN [asset EXCEPT !.viewCount = asset.viewCount + 1]
                      ELSE asset])

\* Index.tsx 352-359
replaced(arr, updatedAsset) ==
    mapArray(arr, [asset \in Range(arr) |->
                      IF asset.id = updatedAsset.id THEN updatedAsset ELSE asset])

\* Index.tsx 361-364
removed(arr, assetId) == SelectSeq(arr, LAMBDA asset : asset.id # assetId)

InitPage ==
    /\ assets = PageAssets
    /\ filters = DefaultFilters
    /\ result = assets
    /\ given = [assets |-> assets, filters |-> DefaultFilters]
    /\ calls = <<>>
    /\ steps = 0
    /\ InitPanel
    /\ InitLoaded
    /\ InitIdle

\* Index.tsx 366-370
PageSearch ==
    /\ steps < MaxPageSteps
    /\ \E f \in PageFilterPool : handleSmartSearch(f)
    /\ UNCHANGED <<calls, panelVars>>

\* Index.tsx 147-151, called by a processFiles that was made in the current
\* render (handleFileSelect) or in the first one, before any asset was loaded
\* (handleDrop, memoised with no dependencies)
FilesUploaded ==
    /\ steps < MaxPageSteps
    /\ \E newAssets \in UploadedPool, captured \in {assets, <<>>} :
          /\ \A i \in DOMAIN newAssets : \A j \in DOMAIN captured :
                 newAssets[i].id # captured[j].id
          /\ handleFilesUploaded(captured, newAssets)
    /\ steps' = steps + 1
    /\ UNCHANGED <<filters, given, calls, panelVars, folderVars, uploadVars>>

\* Index.tsx 153-182, when the remote call has returned
AssetView ==
    /\ steps < MaxPageSteps
    /\ \E assetId \in AssetIds :
          /\ assets' = viewed(assets, assetId)
          /\ result' = viewed(result, assetId)
    /\ steps' = steps + 1
    /\ UNCHANGED <<filters, given, calls, panelVars, folderVars, uploadVars>>

\* Index.tsx 352-359, with an asset of the page whose tags were edited
AssetUpdated ==
    /\ steps < MaxPageSteps
    /\ \E i \in DOMAIN assets, tags \in EditedTags :
          LET updatedAsset == [assets[i] EXCEPT !.tags = tags]
          IN  /\ assets' = replaced(assets, updatedAsset)
              /\ result' = replaced(result, updatedAsset)
    /\ steps' = steps + 1
    /\ UNCHANGED <<filters, given, calls, panelVars, folderVars, uploadVars>>

\* Index.tsx 361-364
AssetDeleted ==
    /\ steps < MaxPageSteps
    /\ \E assetId \in AssetIds :
          /\ assets' = removed(assets, assetId)
          /\ result' = removed(result, assetId)
    /\ steps' = steps + 1
    /\ UNCHANGED <<filters, given, calls, panelVars, folderVars, uploadVars>>

NextPage ==
    \/ PageSearch
    \/ FilesUploaded
    \/ AssetView
    \/ AssetUpdated
    \/ AssetDeleted

SpecPage == InitPage /\ [][NextPage]_vars

----------------------------------------------------------------------------
(* Folders: loadData and handleNavigateToFolder, Index.tsx 44-145, 184-251 *)
(* for a signed-in user                                                     *)

\* navigations explored
MaxNavigations == 2

\* the folders of the user; 0 stands for null, the root
FolderIds == {1, 2}

\* folders.parent_folder_id: folder 1 is in the root, folder 2 in folder 1
ParentFolder == [f \in FolderIds |-> f - 1]

\* the rows of digital_assets with a folder_id, as loadData maps them (79-100)
StoredAssets ==
    [f \in {0} \cup FolderIds |->
        CASE f = 0 -> PageAssets
          [] f = 1 -> << Asset(3, draft, image, 2048, 3 * MsPerDay, <<image>>, imageFile, 0,
                               Undefined, Undefined) >>
          [] OTHER -> <<>>]

\* the rows of folders with a parent_folder_id, as loadData maps them (128-138)
StoredFolders == [f \in {0} \cup FolderIds |-> IF f < 2 THEN <<f + 1>> ELSE <<>>]

RECURSIVE buildPath(_)
\* Index.tsx 216-246: the ancestors of the folder, outermost first
buildPath(folder) ==
    IF ParentFolder[folder] = 0 THEN <<>>
    ELSE Append(buildPath(ParentFolder[folder]), ParentFolder[folder])

\* Index.tsx 45-145: the effect runs loadData for the folder of the render
\* that currentFolder was set in
loadData(folder) == loads' = Append(loads, [folder |-> folder, at |-> "assets", ok |-> TRUE])

\* the page is mounted: no asset yet, loadData under way for the root
InitFolders ==
    /\ assets = <<>>
    /\ filters = DefaultFilters
    /\ result = <<>>
    /\ given = [assets |-> <<>>, filters |-> DefaultFilters]
    /\ calls = <<>>
    /\ steps = 0
    /\ InitPanel
    /\ currentFolder = 0
    /\ folders = <<>>
    /\ folderPath = <<>>
    /\ loads = <<[folder |-> 0, at |-> "assets", ok |-> TRUE]>>
    /\ opens = <<>>
    /\ InitIdle

\* Index.tsx 187-192: handleNavigateToFolder(null); the effect runs again
\* only if the state changed
NavigateToRoot ==
    /\ steps < MaxNavigations
    /\ steps' = steps + 1
    /\ currentFolder' = 0
    /\ folderPath' = <<>>
    /\ IF currentFolder # 0 THEN loadData(0) ELSE UNCHANGED loads
    /\ UNCHANGED <<assets, filters, result, given, calls, panelVars, folders, opens,
                   uploadVars>>

\* Index.tsx 184-200: handleNavigateToFolder(folderId) up to its first await
NavigateToFolder ==
    /\ steps < MaxNavigations
    /\ steps' = steps + 1
    /\ \E folderId \in FolderIds :
          opens' = Append(opens, [folder |-> folderId, at |-> "fetch"])
    /\ UNCHANGED <<assets, filters, result, given, calls, panelVars, currentFolder,
                   folders, folderPath, loads, uploadVars>>

\* Index.tsx 195-213: the folder row arrives and becomes the current folder,
\* a new object each time, so the effect runs loadData; or an error arrives
FolderFetched ==
    /\ \E i \in DOMAIN opens :
          /\ opens[i].at = "fetch"
          /\ \/ /\ opens' = [opens EXCEPT ![i].at = "path"]
                /\ currentFolder' = opens[i].folder
                /\ loadData(opens[i].folder)
             \/ /\ opens' = [opens EXCEPT ![i].at = "done"]
                /\ UNCHANGED <<currentFolder, loads>>
    /\ UNCHANGED <<assets, filters, result, given, calls, steps, panelVars, folders,
                   folderPath, uploadVars>>

\* Index.tsx 216-250: the ancestors have been fetched
PathBuilt ==
    /\ \E i \in DOMAIN opens :
          /\ opens[i].at = "path"
          /\ opens' = [opens EXCEPT ![i].at = "done"]
          /\ folderPath' = buildPath(opens[i].folder)
    /\ UNCHANGED <<assets, filters, result, given, calls, steps, panelVars, currentFolder,
                   folders, loads, uploadVars>>

\* Index.tsx 60-104: the answer to the asset query of a loadData arrives, the
\* rows of its folder or an error
AssetsLoaded ==
    /\ \E i \in DOMAIN loads :
          /\ loads[i].at = "assets"
          /\ \/ /\ assets' = StoredAssets[loads[i].folder]
                /\ result' = StoredAssets[loads[i].folder]
                /\ loads' = [loads EXCEPT ![i].at = "folders"]
             \/ /\ loads' = [loads EXCEPT ![i].at = "folders", ![i].ok = FALSE]
                /\ UNCHANGED <<assets, result>>
    /\ UNCHANGED <<filters, given, calls, steps, panelVars, currentFolder, folders,
                   folderPath, opens, uploadVars>>

\* Index.tsx 106-141: the answer to the folder query of a loadData arrives
FoldersLoaded ==
    /\ \E i \in DOMAIN loads :
          /\ loads[i].at = "folders"
          /\ loads' = [loads EXCEPT ![i].at = "done"]
          /\ \/ folders' = StoredFolders[loads[i].folder]
             \/ UNCHANGED folders
    /\ UNCHANGED <<assets, filters, result, given, calls, steps, panelVars, currentFolder,
                   folderPath, opens, uploadVars>>

NextFolders ==
    \/ NavigateToRoot
    \/ NavigateToFolder
    \/ FolderFetched
    \/ PathBuilt
    \/ AssetsLoaded
    \/ FoldersLoaded

SpecFolders == InitFolders /\ [][NextFolders]_vars

----------------------------------------------------------------------------
(* The upload zone: processFiles, FileUploadZone.tsx 27-127 and, with the   *)
(* storage upload and the database insert, unnamed/part_004 30-227          *)

\* runs of processFiles explored; a second one can start while the first is
\* awaiting, the drop handler is never disabled
MaxRuns == 2

jpegFormat == <<"i", "m", "a", "g", "e", "/", "j", "p", "e", "g">>
webpFormat == <<"i", "m", "a", "g", "e", "/", "w", "e", "b", "p">>
gifFormat == <<"i", "m", "a", "g", "e", "/", "g", "i", "f">>
webmFormat == <<"v", "i", "d", "e", "o", "/", "w", "e", "b", "m">>

supportedTypes == {jpegFormat, pngFormat, webpFormat, gifFormat, mp4Format, webmFormat}

\* a file of the FileList; decodes: the browser can read it as an image or a
\* video, so that onload or onloadedmetadata fires
File(name, type, size, decodes) ==
    [name |-> name, type |-> type, size |-> size, decodes |-> decodes]

goodPng == File(cat, pngFormat, 1024, TRUE)
badPng == File(draft, pngFormat, 2048, FALSE)
clip == File(dog, mp4Format, MB, TRUE)
badClip == File(red, webmFormat, MB, FALSE)
paper == File(car, pdfFormat, 1024, TRUE)

\* what is dropped or selected: never an empty list (lines 134 and 141)
FileLists ==
    { <<paper>>, <<goodPng>>, <<clip, paper>>, <<goodPng, clip>>, <<badPng, goodPng>>,
      <<badClip>> }

\* what analyzeImageContent resolves to, and what line 70 puts in its place
\* when it rejects
Analyses ==
    { [tags |-> <<cat>>, description |-> <<>>],
      [tags |-> <<image>>, description |-> imageFile] }

\* new Date() at the time of the upload
UploadInstant == 3 * MsPerDay

isVideo(file) == startsWith(file.type, <<"v", "i", "d", "e", "o", "/">>)

\* lines 104-116 (part_004 200-214): the record of the file; no viewCount is
\* written, the record reads as never viewed
uploadedAsset(run) ==
    LET file == Head(run.files)
    IN  Asset(run.fileId, file.name, IF isVideo(file) THEN video ELSE image, file.size,
              UploadInstant, run.tags, run.description, 0, Undefined, Undefined)

\* the end of one pass of the loop of line 40 and what follows without an
\* await: the next file up to its first await, or lines 123-125
continueLoop(r, run, progress) ==
    IF Tail(run.files) = <<>>
    THEN /\ runs' = [runs EXCEPT ![r] = [run EXCEPT !.files = <<>>, !.at = "done",
                                                    !.called = @ + 1]]
         /\ isAnalyzing' = FALSE
         /\ uploadProgress' = <<>>
         /\ handleFilesUploaded(run.captured, run.newAssets)
    ELSE LET fileId == 10 * r + Len(run.files) - 1
         IN  /\ runs' = [runs EXCEPT ![r] = [run EXCEPT !.files = Tail(@), !.at = "upload",
                                                        !.fileId = fileId]]
             /\ uploadProgress' = (fileId :> 20) @@ progress
             /\ UNCHANGED <<isAnalyzing, assets, result>>

InitUpload ==
    /\ assets = PageAssets
    /\ filters = DefaultFilters
    /\ result = assets
    /\ given = [assets |-> assets, filters |-> DefaultFilters]
    /\ calls = <<>>
    /\ steps = 0
    /\ InitPanel
    /\ InitLoaded
    /\ InitIdle

\* lines 27-43 (part_004 30-108): processFiles up to its first await; the
\* closure holds the assets of the current render (handleFileSelect) or of
\* the first one (handleDrop)
StartRun ==
    /\ Len(runs) < MaxRuns
    /\ \E files \in FileLists, captured \in {assets, <<>>} :
          LET validFiles == SelectSeq(files, LAMBDA file : file.type \in supportedTypes)
              r == Len(runs) + 1
              fileId == 10 * r + Len(validFiles)
              run == [files |-> validFiles, at |-> "upload", fileId |-> fileId,
                      tags |-> <<>>, description |-> <<>>, newAssets |-> <<>>,
                      called |-> 0, captured |-> captured]
          IN  IF Len(validFiles) = 0
              THEN /\ runs' = Append(runs, [run EXCEPT !.at = "rejected"])
                   /\ UNCHANGED <<isAnalyzing, uploadProgress>>
              ELSE /\ runs' = Append(runs, run)
                   /\ isAnalyzing' = TRUE
                   /\ uploadProgress' = (fileId :> 20) @@ uploadProgress
    /\ UNCHANGED <<assets, filters, result, given, calls, steps, panelVars, folderVars>>

\* part_004 106-145 (FileUploadZone.tsx 49-63, where the await is a timer
\* and never fails): the upload has ended, with an error or not
Uploaded(r) ==
    /\ r \in DOMAIN runs
    /\ runs[r].at = "upload"
    /\ \/ continueLoop(r, runs[r], uploadProgress)
       \/ /\ runs' = [runs EXCEPT ![r].at = IF isVideo(Head(runs[r].files))
                                              THEN "load" ELSE "analyze",
                                   ![r].tags = <<video>>,
                                   ![r].description = <<"V">> \o Tail(imageFile)]
          /\ uploadProgress' = (runs[r].fileId :> 60) @@ uploadProgress
          /\ UNCHANGED <<isAnalyzing, assets, result>>
    /\ UNCHANGED <<filters, given, calls, steps, panelVars, folderVars>>

\* lines 63-83 (part_004 135-155): analyzeImageContent has settled
Analyzed(r) ==
    /\ r \in DOMAIN runs
    /\ runs[r].at = "analyze"
    /\ \E analysis \in Analyses :
          runs' = [runs EXCEPT ![r].at = "load", ![r].tags = analysis.tags,
                               ![r].description = analysis.description]
    /\ UNCHANGED <<assets, filters, result, given, calls, steps, panelVars, folderVars,
                   isAnalyzing, uploadProgress>>

\* lines 75-102 (part_004 147-196): onload or onloadedmetadata fires and
\* resolves the promise; nothing resolves it for a file that does not decode
MediaLoaded(r) ==
    /\ r \in DOMAIN runs
    /\ runs[r].at = "load"
    /\ Head(runs[r].files).decodes
    /\ runs' = [runs EXCEPT ![r].at = "insert"]
    /\ uploadProgress' = (runs[r].fileId :> 80) @@ uploadProgress
    /\ UNCHANGED <<assets, filters, result, given, calls, steps, panelVars, folderVars,
                   isAnalyzing>>

\* part_004 176-220 (FileUploadZone.tsx 104-121, without the insert and its
\* error): the insert has ended, with an error or not
Inserted(r) ==
    /\ r \in DOMAIN runs
    /\ runs[r].at = "insert"
    /\ \/ continueLoop(r, runs[r], uploadProgress)
       \/ continueLoop(r, [runs[r] EXCEPT !.newAssets = Append(@, uploadedAsset(runs[r]))],
                       (runs[r].fileId :> 100) @@ uploadProgress)
    /\ UNCHANGED <<filters, given, calls, steps, panelVars, folderVars>>

Resume(r) == Uploaded(r) \/ Analyzed(r) \/ MediaLoaded(r) \/ Inserted(r)

NextUpload ==
    \/ StartRun
    \/ \E r \in 1..MaxRuns : Uploaded(r)
    \/ \E r \in 1..MaxRuns : Analyzed(r)
    \/ \E r \in 1..MaxRuns : MediaLoaded(r)
    \/ \E r \in 1..MaxRuns : Inserted(r)

SpecUpload == InitUpload /\ [][NextUpload]_vars

\* every promise that can settle does: a request ends, with an error or not,
\* analyzeImageContent resolves, a timer fires, a file that decodes loads
SpecUploadFair == SpecUpload /\ \A r \in 1..MaxRuns : WF_vars(Resume(r))

----------------------------------------------------------------------------
(* Properties *)

\* what a call returns
Returned(arr, f) == performSmartSearch(arr, f).returned

\* the query as the engine reads it: lower-cased and trimmed
Normal(q) == trim(toLowerCase(q))

\* the query is a double-quoted text spanning the whole string
IsQuoted(q) ==
    LET n == Normal(q) IN Len(n) >= 3 /\ n[1] = DQ /\ n[Len(n)] = DQ

QuotedText(q) == LET n == Normal(q) IN SubSeq(n, 2, Len(n) - 1)

\* the tokens of an unquoted query
Tokens(q) == split(Normal(q), SP)

\* the phrase lies inside the name, the description, the aiDescription or one tag
PhraseInFields(a, phrase) ==
    \/ \E field \in {a.name, a.description, OrEmpty(a.aiDescription)} :
          includes(toLowerCase(field), phrase)
    \/ \E tag \in Range(a.tags) : includes(toLowerCase(tag), phrase)

\* the word lies inside one of the searchable fields
WordInSomeField(a, word) ==
    \E field \in {a.name, a.description, OrEmpty(a.aiDescription),
                  OrEmpty(a.aiTextContent)} \cup Range(a.tags) :
        includes(toLowerCase(field), word)

DayStart(t) == t - (t % MsPerDay)

PassesText(a, q) ==
    IF q = <<>> THEN TRUE
    ELSE IF IsQuoted(q) THEN PhraseInFields(a, QuotedText(q))
    ELSE \A t \in Range(Tokens(q)) :
            IF startsWith(t, <<DASH>>)
            THEN ~includes(searchableText(a), Tail(t))
            ELSE includes(searchableText(a), t)

PassesAll(a, f) ==
    /\ PassesText(a, f.query)
    /\ f.fileTypes = <<>> \/ getFileCategory(a.type) \in Range(f.fileTypes)
    /\ f.tags = <<>> \/ Range(f.tags) \subseteq Range(a.tags)
    /\ dateFrom(f) = <<>> \/ a.uploadDate >= DayStart(dateFrom(f)[1])
    /\ dateTo(f) = <<>> \/ a.uploadDate <= DayStart(dateTo(f)[1]) + MsPerDay - 1
    /\ sizeMin(f) = <<>> \/ a.size >= sizeMin(f)[1]
    /\ sizeMax(f) = <<>> \/ a.size <= sizeMax(f)[1]

\* C1: the call returns exactly the input records that pass every active
\* predicate (text, category, tag, date, size), each once: nothing is created
\* or duplicated, a record is missing only if an active predicate rejects it,
\* and an unset dimension rejects nothing.
C1_ExactlyThePassing ==
    steps > 0 =>
        /\ Range(result) \subseteq Range(given.assets)
        /\ Distinct(result)
        /\ \A a \in Range(given.assets) :
              a \in Range(result) <=> PassesAll(a, given.filters)

C1_Witness ==
    /\ steps > 0
    /\ Len(given.assets) = 2
    /\ Len(result) = 1
    /\ given.filters.tags # <<>>
    /\ given.filters.sizeRange # <<>>

\* C2: a call leaves its two arguments as they were: the asset array has the
\* same elements in the same order, the filter specification the same fields.
C2_InputsUnchanged ==
    steps > 0 => assets = given.assets /\ filters = given.filters

C2_Witness ==
    /\ steps > 0
    /\ filters.query = <<>> /\ filters.tags = <<>> /\ filters.fileTypes = <<>>
    /\ filters.dateRange = <<>> /\ filters.sizeRange = <<>>
    /\ Len(result) = 2
    /\ result # assets

AnyTag == {cat, dog, Cat}

withTag(f, t) == [f EXCEPT !.tags = Append(@, t)]

\* C4: adding one more required tag to filters.tags gives a result whose
\* records all belong to the result before the tag was added.
C4_TagNarrows ==
    \A t \in AnyTag : Range(Returned(assets, withTag(filters, t))) \subseteq Range(result)

C4_Witness ==
    /\ steps > 0
    /\ filters.tags # <<>>
    /\ \E t \in AnyTag :
          /\ Returned(assets, withTag(filters, t)) # <<>>
          /\ Len(Returned(assets, withTag(filters, t))) < Len(result)

withFileType(f, ft) == [f EXCEPT !.fileTypes = Append(@, ft)]

\* C5, as claimed: adding one more file type to filters.fileTypes, empty or
\* not, gives a result whose records all belong to the result before.
C5_FileTypeNarrows ==
    \A ft \in Range(FILE_TYPES) :
        Range(Returned(assets, withFileType(filters, ft))) \subseteq Range(result)

\* C5, amended: adding a file type to an empty filters.fileTypes gives a
\* result inside the result before; adding one more file type to a non-empty
\* filters.fileTypes gives a result that contains the result before.
C5_FileTypeWidens ==
    \A ft \in Range(FILE_TYPES) :
        IF filters.fileTypes = <<>>
        THEN Range(Returned(assets, withFileType(filters, ft))) \subseteq Range(result)
        ELSE Range(result) \subseteq Range(Returned(assets, withFileType(filters, ft)))

C5_Witness ==
    /\ steps > 0
    /\ filters.fileTypes = <<"image">>
    /\ result = <<>>
    /\ Len(Returned(assets, withFileType(filters, "document"))) = 2

\* C6: with filters.tags non-empty a record passes the tag predicate iff
\* every requested tag is an element of its tags, same characters and same
\* case: tags {cat} do not pass {cat, dog}, tag Cat does not pass {cat}.
C6_TagsAllExact ==
    (steps > 0 /\ filters.tags # <<>>) =>
        Range(result) =
            {a \in Range(Returned(assets, [filters EXCEPT !.tags = <<>>])) :
                \A t \in Range(filters.tags) : t \in Range(a.tags)}

C6_Witness ==
    /\ steps > 0
    /\ filters.tags = <<cat, dog>>
    /\ {a.tags : a \in Range(assets)} = {<<cat, dog>>, <<Cat, dog>>}
    /\ {a.tags : a \in Range(result)} = {<<cat, dog>>}

\* the exclusion terms of an unquoted query: its tokens that begin with '-',
\* the '-' stripped, those that are then empty left out
ExclusionTerms(q) ==
    {Tail(t) : t \in {u \in Range(Tokens(q)) : startsWith(u, <<DASH>>) /\ Len(u) > 1}}

InclusionTerms(q) ==
    {t \in Range(Tokens(q)) : ~startsWith(t, <<DASH>>) /\ t # <<>>}

\* C7: for an unquoted query a record whose haystack contains an exclusion
\* term is not returned, even when it contains every inclusion term; the
\* query -draft alone removes exactly the records with draft in a searchable
\* field.
C7_ExclusionWins ==
    (steps > 0 /\ ~IsQuoted(filters.query)) =>
        /\ \A a \in Range(assets) :
              (\E x \in ExclusionTerms(filters.query) : includes(searchableText(a), x))
                  => a \notin Range(result)
        /\ Normal(filters.query) = <<DASH>> \o draft =>
              Range(result) = {a \in Range(assets) : ~WordInSomeField(a, draft)}

C7_Witness ==
    /\ steps > 0
    /\ filters.query = cat \o <<SP, DASH>> \o draft
    /\ \E a \in Range(assets) :
          /\ \A t \in InclusionTerms(filters.query) : includes(searchableText(a), t)
          /\ includes(searchableText(a), draft)
          /\ a \notin Range(result)
    /\ result # <<>>

\* C8: when the trimmed, lower-cased query is a double-quoted text spanning
\* the whole string, a record is returned iff the quoted text lies inside its
\* lower-cased name, description or aiDescription, or inside one lower-cased
\* tag; the text in aiTextContent alone, or its words in separate places, do
\* not count.
C8_ExactPhrase ==
    (steps > 0 /\ IsQuoted(filters.query)) =>
        Range(result) = {a \in Range(assets) : PhraseInFields(a, QuotedText(filters.query))}

C8_Witness ==
    /\ steps > 0
    /\ filters.query = <<DQ>> \o redCar \o <<DQ>>
    /\ \E a \in Range(result) : a.name = redCar
    /\ \E a \in Range(result) : a.tags = <<redCar>>
    /\ \E a \in Range(assets) : a.aiTextContent = redCar /\ a \notin Range(result)
    /\ \E a \in Range(assets) : a.name = red /\ a.description = car /\ a \notin Range(result)
    /\ \E a \in Range(assets) : a.tags = <<red, car>> /\ a \notin Range(result)

\* the query without its tokens that are a bare '-'
WithoutBareDash(q) == join(SelectSeq(Tokens(q), LAMBDA t : t # <<DASH>>), SP)

\* C9, as claimed: a bare '-' token adds no exclusion constraint: the query
\* returns the records it returns without that token, and the query '-'
\* alone returns every record.
C9_BareDashIgnored ==
    (steps > 0 /\ ~IsQuoted(filters.query) /\ <<DASH>> \in Range(Tokens(filters.query))) =>
        Range(result) =
            Range(Returned(assets, withQuery(filters, WithoutBareDash(filters.query))))

\* every white space character of the query replaced by a space
Spaced(q) == [i \in 1..Len(q) |-> IF IsWhiteSpace(q[i]) THEN SP ELSE q[i]]

\* the non-empty tokens of the query split on white space of any kind, joined
\* by one space
SingleSpaced(q) ==
    join(SelectSeq(split(Normal(Spaced(q)), SP), LAMBDA t : t # <<>>), SP)

\* C10, as claimed: an unquoted query returns the records that the query
\* with the same tokens, separated by single spaces, returns.  Stated for
\* the queries without '-', where no term is an exclusion term.
C10_AnyWhiteSpaceSplits ==
    (steps > 0 /\ ~IsQuoted(filters.query) /\ DASH \notin Range(filters.query)) =>
        Range(result) =
            Range(Returned(assets, withQuery(filters, SingleSpaced(filters.query))))

\* the query is empty or made of white space only
Blank(q) == \A i \in DOMAIN q : IsWhiteSpace(q[i])

\* the category, tag, date and size predicates, without the text predicate
PassesOthers(a, f) ==
    /\ f.fileTypes = <<>> \/ getFileCategory(a.type) \in Range(f.fileTypes)
    /\ f.tags = <<>> \/ Range(f.tags) \subseteq Range(a.tags)
    /\ dateFrom(f) = <<>> \/ a.uploadDate >= DayStart(dateFrom(f)[1])
    /\ dateTo(f) = <<>> \/ a.uploadDate <= DayStart(dateTo(f)[1]) + MsPerDay - 1
    /\ sizeMin(f) = <<>> \/ a.size >= sizeMin(f)[1]
    /\ sizeMax(f) = <<>> \/ a.size <= sizeMax(f)[1]

\* C11: with a blank query (empty, or white space only) every record passes
\* the text predicate: the records returned are exactly those that pass the
\* category, tag, date and size predicates.
C11_BlankQueryNoConstraint ==
    (steps > 0 /\ Blank(given.filters.query)) =>
        Range(result) = {a \in Range(given.assets) : PassesOthers(a, given.filters)}

C11_Witness ==
    /\ steps > 0
    /\ given.filters.query = <<TAB>>
    /\ given.filters.tags = <<cat>>
    /\ given.filters.sizeRange # <<>>
    /\ Len(result) = 2

\* the category rules in their order of priority: the format string begins
\* with the prefix, or contains one of the texts
CategoryRules ==
    << [category |-> "image", prefix |-> {<<"i", "m", "a", "g", "e", "/">>}, inside |-> {}],
       [category |-> "video", prefix |-> {<<"v", "i", "d", "e", "o", "/">>}, inside |-> {}],
       [category |-> "audio", prefix |-> {<<"a", "u", "d", "i", "o", "/">>}, inside |-> {}],
       [category |-> "document", prefix |-> {},
        inside |-> {<<"p", "d", "f">>, <<"d", "o", "c", "u", "m", "e", "n", "t">>,
                    <<"t", "e", "x", "t">>}],
       [category |-> "archive", prefix |-> {},
        inside |-> {<<"z", "i", "p">>, <<"a", "r", "c", "h", "i", "v", "e">>,
                    <<"t", "a", "r">>, <<"r", "a", "r">>}] >>

\* the rules the format string matches
MatchingRules(format) ==
    {i \in DOMAIN CategoryRules :
        \/ \E x \in CategoryRules[i].prefix : startsWith(format, x)
        \/ \E x \in CategoryRules[i].inside : includes(format, x)}

\* the category of the first rule that matches, document when none does
FirstMatchCategory(format) ==
    IF MatchingRules(format) = {} THEN "document"
    ELSE CategoryRules[CHOOSE i \in MatchingRules(format) :
                           \A j \in MatchingRules(format) : i <= j].category

\* every predicate but the category predicate
PassesButCategory(a, f) == PassesAll(a, [f EXCEPT !.fileTypes = <<>>])

C13_UnrecognisedIsDocument ==
    (steps > 0 /\ given.filters.fileTypes # <<>>) =>
        \A a \in Range(given.assets) :
            (MatchingRules(a.type) = {} /\ PassesButCategory(a, given.filters)) =>
                (a \in Range(result) <=> "document" \in Range(given.filters.fileTypes))

C13_Witness ==
    /\ steps > 0
    /\ given.filters = [DefaultFilters EXCEPT !.fileTypes = <<"document">>]
    /\ \E a \in Range(result) : a.type = woffFormat
    /\ \E a \in Range(result) : a.type = image
    /\ \E a \in Range(given.assets) : a.type = zipFormat /\ a \notin Range(result)

\* the calendar day an instant lies in
Day(t) == t \div MsPerDay

\* every predicate but the two date predicates
PassesButDate(a, f) == PassesAll(a, [f EXCEPT !.dateRange = <<>>])

\* C14: the date bounds are whole days, inclusive, and each applies on its
\* own: a record that passes the other predicates is returned iff it was
\* uploaded on the from-day or later (when from is set) and on the to-day or
\* earlier (when to is set, with or without from); the first millisecond of the
\* from-day and the last of the to-day are in, the millisecond before and the
\* millisecond after are out.
C14_DateBoundsWholeDays ==
    steps > 0 =>
        \A a \in Range(given.assets) :
            PassesButDate(a, given.filters) =>
                LET from == dateFrom(given.filters)
                    to == dateTo(given.filters)
                IN  /\ a \in Range(result) <=>
                          /\ from = <<>> \/ Day(a.uploadDate) >= Day(from[1])
                          /\ to = <<>> \/ Day(a.uploadDate) <= Day(to[1])
                    /\ (from # <<>> /\ a.uploadDate = Day(from[1]) * MsPerDay - 1)
                          => a \notin Range(result)
                    /\ (to # <<>> /\ a.uploadDate = (Day(to[1]) + 1) * MsPerDay)
                          => a \notin Range(result)

C14_Witness ==
    /\ steps > 0
    /\ given.filters =
          [DefaultFilters EXCEPT !.dateRange = <<[from |-> <<>>, to |-> <<2 * MsPerDay + Noon>>]>>]
    /\ \E a \in Range(result) : a.uploadDate = 3 * MsPerDay - 1
    /\ \E a \in Range(result) : a.uploadDate = MsPerDay
    /\ \E a \in Range(given.assets) : a.uploadDate = 3 * MsPerDay /\ a \notin Range(result)

\* every predicate but the two size predicates
PassesButSize(a, f) == PassesAll(a, [f EXCEPT !.sizeRange = <<>>])

\* the sizes from min to max, a missing bound leaving its side open
InSizeRange(size, range) ==
    /\ \A min \in Range(range.min) : size >= min
    /\ \A max \in Range(range.max) : size <= max

\* C15: the size bounds are inclusive and each applies on its own: a record
\* that passes the other predicates is returned iff its size is at least min
\* (when min is set, 0 included) and at most max (when max is set); with
\* {min: 1024, max: 2048} the sizes 1024 and 2048 are in and 2049 is out.
C15_SizeBoundsInclusive ==
    (steps > 0 /\ given.filters.sizeRange # <<>>) =>
        \A a \in Range(given.assets) :
            PassesButSize(a, given.filters) =>
                /\ a \in Range(result) <=> InSizeRange(a.size, given.filters.sizeRange[1])
                /\ given.filters.sizeRange[1] = [min |-> <<1024>>, max |-> <<2048>>] =>
                      /\ a.size \in {1024, 2048} => a \in Range(result)
                      /\ a.size = 2049 => a \notin Range(result)

C15_Witness ==
    /\ steps > 0
    /\ given.filters =
          [DefaultFilters EXCEPT !.sizeRange = <<[min |-> <<1024>>, max |-> <<2048>>]>>]
    /\ {a.size : a \in Range(result)} = {1024, 2048}
    /\ {1023, 2049} \subseteq {a.size : a \in Range(given.assets)}

RECURSIVE Sum(_)
\* the sum of a sequence of numbers
Sum(numbers) == IF numbers = <<>> THEN 0 ELSE Head(numbers) + Sum(Tail(numbers))

\* points when the signal is there, nothing otherwise
Points(signal, points) == IF signal THEN points ELSE 0

\* the claimed score, in tenths: each signal adds its points on its own
SignalScore(a, q) ==
    LET ql == toLowerCase(q)
        name == toLowerCase(a.name)
    IN  Points(includes(name, ql), 100)
          + Points(name = ql, 200)
          + Points(startsWith(name, ql), 50)
          + Sum([i \in DOMAIN a.tags |->
                    Points(includes(toLowerCase(a.tags[i]), ql), 50)
                      + Points(toLowerCase(a.tags[i]) = ql, 100)])
          + Points(includes(toLowerCase(a.description), ql), 30)
          + Points(a.aiDescription # Undefined
                     /\ includes(toLowerCase(OrEmpty(a.aiDescription)), ql), 20)
          + Points(a.aiTextContent # Undefined
                     /\ includes(toLowerCase(OrEmpty(a.aiTextContent)), ql), 10)
          + Min(a.viewCount, 20)

\* the sort of the last call used the scorer
Scored(f) == f.sortBy \notin {"name", "date", "size", "views"} /\ f.query # <<>>

\* C16: the score of a record for a query is the sum of the signals on
\* lower-cased text: name contains 10, equals 20 more, starts with 5 more;
\* each tag contains 5, equals 10 more; description 3; aiDescription 2;
\* aiTextContent 1; and min(viewCount / 10, 2) whatever matches.  It is
\* never negative.  (Scores are in tenths.)
C16_ScoreIsSumOfSignals ==
    (steps > 0 /\ Scored(given.filters)) =>
        \A a \in Range(given.assets) :
            /\ calculateRelevanceScore(a, given.filters.query)
                  = SignalScore(a, given.filters.query)
            /\ calculateRelevanceScore(a, given.filters.query) >= 0

C16_Witness ==
    /\ steps > 0
    /\ given.filters.sortBy = "relevance"
    /\ given.filters.query = Cat
    /\ \E a \in Range(result) :
          /\ a.tags = <<cat, Cat, catPhoto>>
          /\ calculateRelevanceScore(a, given.filters.query) = 780
    /\ \E a \in Range(result) : calculateRelevanceScore(a, given.filters.query) = 103

\* a does not come after b in the order of the key
KeyNotAfter(a, b, key) ==
    CASE key = "name" -> localeCompare(a.name, b.name) <= 0
      [] key = "date" -> a.uploadDate <= b.uploadDate
      [] key = "size" -> a.size <= b.size
      [] key = "views" -> a.viewCount <= b.viewCount

\* C17: for sortBy name, date, size or views every two neighbours of the
\* output are in the order of the key: not decreasing with sortOrder asc (date:
\* oldest first), not increasing with sortOrder desc.
C17_OrderedByKey ==
    (steps > 0 /\ given.filters.sortBy \in {"name", "date", "size", "views"}) =>
        \A i \in 1..(Len(result) - 1) :
            IF given.filters.sortOrder = "asc"
            THEN KeyNotAfter(result[i], result[i + 1], given.filters.sortBy)
            ELSE KeyNotAfter(result[i + 1], result[i], given.filters.sortBy)

C17_Witness ==
    /\ steps > 0
    /\ given.filters.sortBy = "date"
    /\ given.filters.sortOrder = "desc"
    /\ Len(result) = 3
    /\ result[1].uploadDate > result[2].uploadDate
    /\ result[2].uploadDate > result[3].uploadDate
    /\ given.assets[1].uploadDate < given.assets[3].uploadDate

\* the score the sort compares
Score(a) == calculateRelevanceScore(a, given.filters.query)

ScenarioA ==
    /\ steps > 0
    /\ Len(given.assets) = 2
    /\ \E a \in Range(given.assets) :
          a.name = catPhoto /\ a.tags = <<>> /\ a.viewCount = 0
    /\ \E a \in Range(given.assets) :
          a.name = Dog /\ a.tags = <<cat>> /\ a.viewCount = 0
    /\ given.filters = [DefaultFilters EXCEPT !.query = cat]

\* C19, as claimed: in scenario A both records are returned, one of them has
\* the lower score, and it is the first of the output.
C19_LowerScoreFirst ==
    ScenarioA => Len(result) = 2 /\ Score(result[1]) < Score(result[2])

\* C19, amended: in scenario A both records are returned and both score 15
\* (name contains and starts with the query: 10 + 5; tag contains and equals
\* it: 5 + 10), so neither has the lower score and the output has them in the
\* order of the input.
C19_EqualScoresKeepOrder ==
    ScenarioA =>
        /\ Len(result) = 2
        /\ \A a \in Range(result) : Score(a) = 150
        /\ result = given.assets

C19_Witness ==
    /\ ScenarioA
    /\ given.assets[1].name = Dog
    /\ result[1].name = Dog
    /\ result[2].name = catPhoto

\* C20, as claimed: with a blank query (empty, or white space only) and sortBy
\* relevance, or a sortBy that is none of name, date, size, views, the scorer
\* is not used and the output is in the order of the upload time: newest
\* first with sortOrder asc, oldest first with sortOrder desc.
C20_BlankQuerySortsByDate ==
    (/\ steps > 0
     /\ Blank(given.filters.query)
     /\ given.filters.sortBy \notin {"name", "date", "size", "views"}) =>
        \A i \in 1..(Len(result) - 1) :
            IF given.filters.sortOrder = "asc"
            THEN result[i].uploadDate >= result[i + 1].uploadDate
            ELSE result[i].uploadDate <= result[i + 1].uploadDate

\* the place of a record in a list without repetitions
Place(l, x) == CHOOSE i \in DOMAIN l : l[i] = x

\* C21: the sort is stable: for every sort key and direction, two records of
\* the output whose final comparison is zero are in the order they had in
\* the input list.
C21_SortIsStable ==
    steps > 0 =>
        \A i, j \in DOMAIN result :
            (i < j /\ compare(result[i], result[j], given.filters) = 0) =>
                Place(given.assets, result[i]) < Place(given.assets, result[j])

C21_Witness ==
    /\ steps > 0
    /\ given.filters.sortBy = "size"
    /\ given.filters.sortOrder = "desc"
    /\ Len(result) = 3
    /\ result # given.assets
    /\ result[2].size = result[3].size
    /\ result[2].id # result[3].id
    /\ Place(given.assets, result[2]) = 1

\* min lies above max
SizeReversed(f) ==
    sizeMin(f) # <<>> /\ sizeMax(f) # <<>> /\ sizeMin(f)[1] > sizeMax(f)[1]

\* the from-day lies after the to-day
DateReversed(f) ==
    dateFrom(f) # <<>> /\ dateTo(f) # <<>> /\ Day(dateFrom(f)[1]) > Day(dateTo(f)[1])

\* C22: a call never ends in an error: it returns a list of records of the
\* input, and the empty list when sizeRange has min > max or when the
\* from-day of dateRange lies after its to-day.
C22_ReversedBoundsGiveEmpty ==
    steps > 0 =>
        /\ ~throwsTypeError(given.assets, given.filters)
        /\ Range(result) \subseteq Range(given.assets)
        /\ (SizeReversed(given.filters) \/ DateReversed(given.filters)) => result = <<>>

C22_Witness ==
    /\ steps > 0
    /\ given.filters =
          [DefaultFilters EXCEPT
              !.dateRange = <<[from |-> <<3 * MsPerDay>>, to |-> <<2 * MsPerDay + Noon>>]>>]
    /\ result = <<>>
    /\ \E a \in Range(given.assets) : a.uploadDate = 3 * MsPerDay
    /\ \E a \in Range(given.assets) : a.uploadDate = 2 * MsPerDay + Noon

\* the record with nothing but its name to match
NameOnly(a) ==
    [a EXCEPT !.tags = <<>>, !.description = <<>>, !.viewCount = 0,
              !.aiDescription = Undefined, !.aiTextContent = Undefined]

\* what the name adds to the score, in tenths
NameContribution(a, q) == calculateRelevanceScore(NameOnly(a), q)

\* C23: the name adds 0, 10, 15 or 35 to the score, never 25 or 30, and it
\* adds 10 + 20 + 5 = 35 when the lower-cased name equals the lower-cased
\* query, which then also contains it and starts with it.
C23_NameBonusesTogether ==
    (steps > 0 /\ Scored(given.filters)) =>
        \A a \in Range(given.assets) :
            /\ NameContribution(a, given.filters.query) \in {0, 100, 150, 350}
            /\ toLowerCase(a.name) = toLowerCase(given.filters.query)
                  => NameContribution(a, given.filters.query) = 350

C23_Witness ==
    /\ steps > 0
    /\ Scored(given.filters)
    /\ given.filters.query = cat
    /\ \E a \in Range(result) : a.name = Cat /\ NameContribution(a, cat) = 350
    /\ \E a \in Range(result) : NameContribution(a, cat) = 150
    /\ \E a \in Range(result) : NameContribution(a, cat) = 100

\* the history is one the claim starts from and ends in: at most ten
\* entries, no entry twice, no empty entry
HistoryOk(h) == Len(h) <= 10 /\ Distinct(h) /\ \A i \in DOMAIN h : h[i] # <<>>

\* the search is for a query that is not empty and not yet in the history
SearchesNew == HandleSearch /\ localQuery # <<>> /\ ~arrayIncludes(searchHistory, localQuery)

\* C24: the search history always has at most ten entries, none of them twice
\* and none of them empty; a search for a query that is not yet in it puts
\* the query at index 0, the earlier entries behind it in their order, the
\* tenth of them dropped; nothing else changes the history: not a search for
\* a query that is in it, not a click on a suggestion, not clearing the box.
C24_HistoryMaintained ==
    /\ [] HistoryOk(searchHistory)
    /\ [][IF SearchesNew
           THEN /\ searchHistory'[1] = localQuery
                /\ Tail(searchHistory') = SubSeq(searchHistory, 1, Min(9, Len(searchHistory)))
           ELSE searchHistory' = searchHistory]_vars

C24_Witness ==
    /\ steps = 2
    /\ Len(searchHistory) = 10
    /\ searchHistory[1] = video
    /\ searchHistory[2] = <<SP>>
    /\ searchHistory[10] = Dog
    /\ localQuery = video

\* C25: the engine applied to its own output, with the same specification,
\* returns that output: the same records in the same order.
C25_Idempotent ==
    steps > 0 =>
        /\ Returned(result, given.filters) = result
        /\ Returned(result, filters) = result

\* three records kept, two of them equal under the key, in another order
\* than they were given in
C25_Witness ==
    /\ steps > 0
    /\ Len(result) = 3
    /\ result # given.assets
    /\ filters.query # <<>>
    /\ filters.sortOrder = "desc"
    /\ \E i \in 1..2 : compare(result[i], result[i + 1], filters) = 0
    /\ Returned(result, filters) = result

\* one token: not empty, no space in it, no '-' in front, no white space and
\* no pair of quotes around it
SingleTerm(q) ==
    /\ q # <<>>
    /\ \A i \in DOMAIN q : q[i] # SP
    /\ q[1] # DASH
    /\ trim(q) = q
    /\ ~(q[1] = DQ /\ q[Len(q)] = DQ)

\* the score without the view bonus, in tenths
TextMatchScore(a, q) == calculateRelevanceScore([a EXCEPT !.viewCount = 0], q)

\* C26: for a query of one token (no space, no leading '-', no quotes or
\* white space around it), every record the text filter keeps has a
\* text-match score of at least 1, and every record with a text-match score
\* above 0 is kept by the text filter.
C26_FilterAndScorerAgree ==
    (steps > 0 /\ SingleTerm(given.filters.query)) =>
        \A i \in DOMAIN given.assets :
            LET a == given.assets[i]
                kept == arrayIncludes(Returned(<<a>>, withQuery(DefaultFilters,
                                                                 given.filters.query)), a)
            IN  /\ kept => TextMatchScore(a, given.filters.query) >= 10
                /\ TextMatchScore(a, given.filters.query) > 0 => kept

\* the query 'draft': kept for its description, its aiDescription 'Draft cat'
\* or its aiTextContent alone (score 1), the others dropped with score 0
C26_Witness ==
    /\ steps > 0
    /\ given.filters.query = draft
    /\ SingleTerm(given.filters.query)
    /\ Len(result) = 3
    /\ \E i \in DOMAIN result : TextMatchScore(result[i], draft) = 10
    /\ \E i \in DOMAIN result : TextMatchScore(result[i], draft) = 20
    /\ \E i \in DOMAIN given.assets :
          /\ ~arrayIncludes(result, given.assets[i])
          /\ TextMatchScore(given.assets[i], draft) = 0

\* the name of a stored type among the file types of the panel
TypeName(type) == IF type = image THEN "image" ELSE "video"

\* C27, as claimed: over assets whose type is 'image' or 'video',
\* fileTypes = [image] keeps exactly the assets of type 'image' that pass the
\* other predicates, and fileTypes = [video] exactly those of type 'video'.
C27_FileTypeSelectsStoredType ==
    (/\ steps > 0
     /\ given.filters.fileTypes \in {<<"image">>, <<"video">>}
     /\ \A a \in Range(given.assets) : a.type \in {image, video}) =>
        \A a \in Range(given.assets) :
            a \in Range(result) <=>
                /\ PassesButCategory(a, given.filters)
                /\ TypeName(a.type) = given.filters.fileTypes[1]

\* C28, as claimed: after any sequence of searches, uploads, updates,
\* deletions and views the displayed list holds exactly the assets of the
\* page that pass the current filters.
C28_DisplayedAreThePassing ==
    Range(result) = {a \in Range(assets) : PassesAll(a, filters)}

\* every loadData and every handleNavigateToFolder has run to its end, and
\* no asset query came back with an error
AllLoaded ==
    /\ \A i \in DOMAIN loads : loads[i].at = "done" /\ loads[i].ok
    /\ \A i \in DOMAIN opens : opens[i].at = "done"

\* C29, as claimed: once all loads have completed, assets and filteredAssets
\* hold the assets of the current folder, also when the folder changed while
\* a load for the folder before was in flight.
C29_LoadedAreOfCurrentFolder ==
    AllLoaded =>
        /\ assets = StoredAssets[currentFolder]
        /\ result = StoredAssets[currentFolder]

\* the run has set isAnalyzing
Started(r) == r \in DOMAIN runs /\ runs[r].at # "rejected"

Finished(r) == r \in DOMAIN runs /\ runs[r].at = "done"

\* C30, as claimed: every run of processFiles that sets isAnalyzing
\* eventually sets it back to false, clears uploadProgress and calls
\* onFilesUploaded, once, whatever happens to its files; a run without a
\* supported file sets nothing and calls nothing.
C30_RunEnds ==
    /\ \A r \in 1..MaxRuns : Started(r) ~> Finished(r)
    /\ [](\A r \in DOMAIN runs : runs[r].called = IF runs[r].at = "done" THEN 1 ELSE 0)
    /\ [][\A r \in 1..MaxRuns :
             /\ (~Finished(r) /\ Finished(r)') =>
                    (isAnalyzing' = FALSE /\ uploadProgress' = <<>>)
             /\ (r \notin DOMAIN runs /\ r \in DOMAIN runs' /\ ~Started(r)') =>
                    UNCHANGED <<isAnalyzing, uploadProgress, assets, result>>]_vars

============================================================================
